---- MODULE Spec2Model ----
(***************************************************************************)
(* Onboarding application: the progress engine, the authorization gate and *)
(* the admin routes of the file-backed server (src/server.js 1..280), the  *)
(* serverless variant (src/api/index.js), the database-backed server       *)
(* (src/server.js 282..596) and the onboarding client (src/unnamed/        *)
(* part_001).                                                              *)
(***************************************************************************)
EXTENDS Integers, Sequences, FiniteSets, TLC

VARIABLES
    users,      \* users.json / the User table: a sequence of user records
    progress,   \* progress.json / the Progress table: a sequence of records
    session,    \* session[c]: << >> or <<identity>>, req.session.user of browser c
    resp,       \* the response to the most recent request
    lastReq,    \* the most recent request
    now,        \* the clock read by new Date()
    client,     \* the onboarding page of the browser: its variables and widgets
    saves,      \* the saveProgress calls of the page that are in flight
    reqs,       \* reqs[r]: a POST /api/progress of the database-backed server
    files,      \* the JSON files given to the migration script, and its runs
    dashboard   \* the admin dashboard of the browser: its variables and what it shows

vars == <<users, progress, session, resp, lastReq, now, client, saves, reqs, files, dashboard>>

----------------------------------------------------------------------------
(* Bounds of the model *)

MaxSectionId == 1      \* section ids a request may carry: 0..MaxSectionId
MaxSections == 1       \* section records in the whole store
MaxJourneyId == 6      \* section ids of the staff journey: 0..MaxJourneyId
MaxDisorder == 0       \* section records of the journey stored out of order
MaxPending == 1        \* saveProgress calls in flight plus timers pending, per page
MaxClock == 1          \* the last instant of the clock
MaxRuns == 2           \* runs of the migration script

(* Program constants *)

LastSection == 6
BcryptRounds == 10
totalSections == 7

Clients == {"browser"}
SectionIds == 0..MaxSectionId
\* ids that no section of the page has, and one that the first section has
AnySectionIds == {0 - 2, 0, LastSection + 1}
DbSectionIds == {0, LastSection + 1}
JourneyIds == 0..MaxJourneyId

Undefined == "<undefined>"
Emails == {"admin@maytech.com", "staff@maytech.com", "new@maytech.com"}
Passwords == {"admin123", "staff123"}
NewNames == {"New Staff"}

----------------------------------------------------------------------------
(* JavaScript helpers *)

Min(a, b) == IF a < b THEN a ELSE b

Max(S) == CHOOSE m \in S : \A x \in S : x <= m

\* Array.prototype.findIndex, given the positions (1-based) of the elements
\* that match: the 0-based index of the first match, or -1
FindIndex(matches) ==
    IF matches = {} THEN -1
    ELSE (CHOOSE i \in matches : \A j \in matches : i <= j) - 1

\* Array.prototype.find: << >> (undefined) or <<the first match>>
Find(seq, matches) ==
    LET i == FindIndex(matches) IN IF i >= 0 THEN <<seq[i + 1]>> ELSE << >>

\* bcrypt.hashSync / bcrypt.compareSync of bcryptjs: both throw on a
\* non-string argument; a hash matches exactly the password it was made from
BcryptThrows(s) == s = Undefined

HashSync(s, rounds) == <<"$2a$", rounds, s>>

\* mutant: every password matches every hash
CompareSync_Always(s, hash) == TRUE

CompareSync(s, hash) == hash[3] = s

----------------------------------------------------------------------------
(* Responses *)

Json(status, body) == [status |-> status, body |-> body]

NotAuthenticated == Json(401, [error |-> "Not authenticated"])
AdminRequired == Json(403, [error |-> "Admin access required"])
InvalidCredentials == Json(401, [error |-> "Invalid credentials"])
UserExists == Json(400, [error |-> "User already exists"])
\* Express' default error handler, for an exception thrown by a handler
UncaughtError == Json(500, [error |-> "Internal Server Error"])

\* The most recent request: its operation, the browser that sent it, the
\* body of a POST /api/progress, and whether the request before it was the same
NoRequest ==
    [op |-> "none", client |-> "", sectionId |-> -1, acknowledged |-> FALSE,
     repeat |-> FALSE]

SameRequest(r, q) ==
    /\ r.op = q.op
    /\ r.client = q.client
    /\ r.sectionId = q.sectionId
    /\ r.acknowledged = q.acknowledged

RequestAfter(prev, op, c, sectionId, acknowledged) ==
    LET r == [op |-> op, client |-> c, sectionId |-> sectionId,
              acknowledged |-> acknowledged, repeat |-> FALSE]
    IN  [r EXCEPT !.repeat = SameRequest(r, prev)]

----------------------------------------------------------------------------
(* Authentication middleware *)

\* mutant: the session object is tested, not the user in it
IsAuthenticated_SessionOnly(sess) == TRUE

IsAuthenticated(sess) == sess # << >>

\* mutant: any identity passes the role check
IsAdmin_AnyUser(sess) == sess # << >>

\* mutant: the role test is negated
IsAdmin_Inverted(sess) == sess # << >> /\ sess[1].role # "admin"

IsAdmin(sess) == sess # << >> /\ sess[1].role = "admin"

Identity(user) ==
    [id |-> user.id, email |-> user.email, name |-> user.name, role |-> user.role]

----------------------------------------------------------------------------
(* Data files *)

DefaultUsers ==
    << [id |-> 1, email |-> "admin@maytech.com",
        password |-> HashSync("admin123", BcryptRounds),
        name |-> "Admin User", role |-> "admin"],
       [id |-> 2, email |-> "staff@maytech.com",
        password |-> HashSync("staff123", BcryptRounds),
        name |-> "Demo Staff", role |-> "staff"] >>

----------------------------------------------------------------------------
(* Progress engine *)

NewProgress(user, t) ==
    [userId |-> user.id, userName |-> user.name, sections |-> << >>,
     currentSection |-> 0, completedSections |-> 0, lastUpdated |-> t]

\* mutant: a section record that exists has its flag flipped, not set
UpdateSection_Toggle(sections, sectionId, acknowledged, t) ==
    LET sectionIndex == FindIndex({k \in DOMAIN sections : sections[k].id = sectionId})
    IN  IF sectionIndex >= 0
        THEN [sections EXCEPT ![sectionIndex + 1] =
                 [@ EXCEPT !.acknowledged = ~@, !.completedAt = t]]
        ELSE Append(sections,
                 [id |-> sectionId, acknowledged |-> acknowledged, completedAt |-> t])

\* mutant: a new section replaces the records of the sections after it
UpdateSection_DropLater(sections, sectionId, acknowledged, t) ==
    LET sectionIndex == FindIndex({k \in DOMAIN sections : sections[k].id = sectionId})
    IN  IF sectionIndex >= 0
        THEN [sections EXCEPT ![sectionIndex + 1] =
                 [@ EXCEPT !.acknowledged = acknowledged, !.completedAt = t]]
        ELSE Append(SelectSeq(sections, LAMBDA x : x.id < sectionId),
                 [id |-> sectionId, acknowledged |-> acknowledged, completedAt |-> t])

\* mutant: a section record is pushed without looking for one of the id
UpdateSection_AlwaysPush(sections, sectionId, acknowledged, t) ==
    Append(sections, [id |-> sectionId, acknowledged |-> acknowledged, completedAt |-> t])

\* "Update section": overwrite the record of sectionId or push a new one
UpdateSection(sections, sectionId, acknowledged, t) ==
    LET sectionIndex == FindIndex({k \in DOMAIN sections : sections[k].id = sectionId})
    IN  IF sectionIndex >= 0
        THEN [sections EXCEPT ![sectionIndex + 1] =
                 [@ EXCEPT !.acknowledged = acknowledged, !.completedAt = t]]
        ELSE Append(sections,
                 [id |-> sectionId, acknowledged |-> acknowledged, completedAt |-> t])

\* mutant: every section record counts, acknowledged or not
CountAcknowledged_All(sections) == Len(sections)

CountAcknowledged(sections) == Len(SelectSeq(sections, LAMBDA s : s.acknowledged))

\* mutant: the cap at the last section is forgotten
CurrentSectionOf_NoCap(completedSections) == completedSections

\* mutant: the cap is the last section that can be acknowledged
CurrentSectionOf_CapBelow(completedSections) == Min(completedSections, LastSection - 1)

CurrentSectionOf(completedSections) == Min(completedSections, LastSection)

\* mutant: the counter is incremented on an acknowledgment, not recomputed
UpdateCounters_Increment(rec, sections, t) ==
    LET n == IF Len(sections) > 0 /\ sections[Len(sections)].acknowledged
             THEN rec.completedSections + 1 ELSE rec.completedSections
    IN  [rec EXCEPT !.sections = sections,
                    !.completedSections = n,
                    !.currentSection = CurrentSectionOf(n),
                    !.lastUpdated = t]

\* "Update counters"
UpdateCounters(rec, sections, t) ==
    [rec EXCEPT !.sections = sections,
                !.completedSections = CountAcknowledged(sections),
                !.currentSection = CurrentSectionOf(CountAcknowledged(sections)),
                !.lastUpdated = t]

\* mutant: a new record is returned whether or not one is stored
GetProgressHandler_Fresh(allProgress, user, t) ==
    [write |-> FALSE, allProgress |-> allProgress, body |-> NewProgress(user, t)]

\* GET /api/progress after the gate: the record list to write and the body
GetProgressHandler(allProgress, user, t) ==
    LET userProgress == Find(allProgress, {k \in DOMAIN allProgress : allProgress[k].userId = user.id})
    IN  IF userProgress = << >>
        THEN [write |-> TRUE,
              allProgress |-> Append(allProgress, NewProgress(user, t)),
              body |-> NewProgress(user, t)]
        ELSE [write |-> FALSE, allProgress |-> allProgress, body |-> userProgress[1]]

\* mutant: the updated record is written over the first record of the file
PostProgressHandler_FirstRecord(allProgress, user, sectionId, acknowledged, t) ==
    LET found == Find(allProgress, {k \in DOMAIN allProgress : allProgress[k].userId = user.id})
        loaded == IF found = << >> THEN Append(allProgress, NewProgress(user, t))
                  ELSE allProgress
        old == IF found = << >> THEN NewProgress(user, t) ELSE found[1]
        userProgress ==
            UpdateCounters(old, UpdateSection(old.sections, sectionId, acknowledged, t), t)
    IN  [write |-> TRUE,
         allProgress |-> [loaded EXCEPT ![1] = userProgress],
         body |-> userProgress]

\* POST /api/progress after the gate
PostProgressHandler(allProgress, user, sectionId, acknowledged, t) ==
    LET found == Find(allProgress, {k \in DOMAIN allProgress : allProgress[k].userId = user.id})
        loaded == IF found = << >> THEN Append(allProgress, NewProgress(user, t))
                  ELSE allProgress
        old == IF found = << >> THEN NewProgress(user, t) ELSE found[1]
        userProgress ==
            UpdateCounters(old, UpdateSection(old.sections, sectionId, acknowledged, t), t)
        progressIndex == FindIndex({k \in DOMAIN loaded : loaded[k].userId = user.id})
    IN  [write |-> TRUE,
         allProgress |-> IF progressIndex >= 0
                         THEN [loaded EXCEPT ![progressIndex + 1] = userProgress]
                         ELSE loaded,
         body |-> userProgress]


RECURSIVE TotalSections(_)
TotalSections(allProgress) ==
    IF allProgress = << >> THEN 0
    ELSE Len(Head(allProgress).sections) + TotalSections(Tail(allProgress))

----------------------------------------------------------------------------
(* Admin aggregator *)

\* mutant: the i-th record is given the i-th user, whatever its userId
Enrich_ByPosition(allProgress, allUsers) ==
    [i \in 1..Len(allProgress) |->
        LET p == allProgress[i]
            user == IF i <= Len(allUsers) THEN <<allUsers[i]>> ELSE << >>
        IN  [userId |-> p.userId, sections |-> p.sections,
             currentSection |-> p.currentSection,
             completedSections |-> p.completedSections,
             lastUpdated |-> p.lastUpdated,
             userName |-> IF user # << >> THEN user[1].name ELSE "Unknown",
             userEmail |-> IF user # << >> THEN user[1].email ELSE "Unknown"]]

Enrich(allProgress, allUsers) ==
    [i \in 1..Len(allProgress) |->
        LET p == allProgress[i]
            user == Find(allUsers, {k \in DOMAIN allUsers : allUsers[k].id = p.userId})
        IN  [userId |-> p.userId, sections |-> p.sections,
             currentSection |-> p.currentSection,
             completedSections |-> p.completedSections,
             lastUpdated |-> p.lastUpdated,
             userName |-> IF user # << >> THEN user[1].name ELSE "Unknown",
             userEmail |-> IF user # << >> THEN user[1].email ELSE "Unknown"]]

\* mutant: the user records are returned as stored
SafeUsers_Raw(allUsers) == allUsers

SafeUsers(allUsers) == [i \in 1..Len(allUsers) |-> Identity(allUsers[i])]

NextUserId(allUsers) == Max({allUsers[i].id : i \in 1..Len(allUsers)} \cup {0}) + 1

\* mutant: the new user is given the admin role
NewUser_Admin(allUsers, email, password, name) ==
    [id |-> NextUserId(allUsers), email |-> email,
     password |-> HashSync(password, BcryptRounds), name |-> name, role |-> "admin"]

NewUser(allUsers, email, password, name) ==
    [id |-> NextUserId(allUsers), email |-> email,
     password |-> HashSync(password, BcryptRounds), name |-> name, role |-> "staff"]

----------------------------------------------------------------------------
(* The handlers of the file-backed server, after the middleware *)

\* POST /api/login: the identity put in the session (<< >>: none) and the response
LoginHandler(allUsers, email, password) ==
    LET user == Find(allUsers, {k \in DOMAIN allUsers : allUsers[k].email = email})
    IN  IF user = << >>
        THEN [identity |-> << >>, resp |-> InvalidCredentials]
        ELSE IF BcryptThrows(password)
        THEN [identity |-> << >>, resp |-> UncaughtError]
        ELSE IF ~CompareSync(password, user[1].password)
        THEN [identity |-> << >>, resp |-> InvalidCredentials]
        ELSE [identity |-> <<Identity(user[1])>>,
              resp |-> Json(200, [success |-> TRUE, user |-> Identity(user[1])])]

\* mutant: the e-mail is compared with the new user's name, so never found
CreateUserHandler_WrongKey(allUsers, email, password, name) ==
    IF Find(allUsers, {k \in DOMAIN allUsers : allUsers[k].email = name}) # << >>
    THEN [users |-> allUsers, resp |-> UserExists]
    ELSE IF BcryptThrows(password)
    THEN [users |-> allUsers, resp |-> UncaughtError]
    ELSE LET newUser == NewUser(allUsers, email, password, name)
         IN  [users |-> Append(allUsers, newUser),
              resp |-> Json(200, [success |-> TRUE,
                           user |-> [id |-> newUser.id, email |-> newUser.email,
                                     name |-> newUser.name]])]

\* POST /api/admin/users: the user list afterwards and the response
CreateUserHandler(allUsers, email, password, name) ==
    IF Find(allUsers, {k \in DOMAIN allUsers : allUsers[k].email = email}) # << >>
    THEN [users |-> allUsers, resp |-> UserExists]
    ELSE IF BcryptThrows(password)
    THEN [users |-> allUsers, resp |-> UncaughtError]
    ELSE LET newUser == NewUser(allUsers, email, password, name)
         IN  [users |-> Append(allUsers, newUser),
              resp |-> Json(200, [success |-> TRUE,
                           user |-> [id |-> newUser.id, email |-> newUser.email,
                                     name |-> newUser.name]])]

----------------------------------------------------------------------------
(* The browser before the onboarding page has run init(), and a request    *)
(* slot of the database-backed server that holds no request                *)

LoginPage ==
    [page |-> "login", currentSection |-> 0, userProgress |-> << >>,
     checked |-> FALSE, ackDisabled |-> TRUE, prevDisabled |-> TRUE,
     nextDisabled |-> TRUE, timers |-> 0]

Slots == {"r1", "r2"}

IdleRequest ==
    [pc |-> "idle", sectionId |-> -1, acknowledged |-> FALSE,
     user |-> << >>, email |-> "", password |-> "", name |-> "",
     userProgress |-> << >>, resp |-> Json(0, [none |-> TRUE])]

----------------------------------------------------------------------------
(* The file-backed server: every handler is synchronous, hence one step.   *)
(* A handler that reads req.session.user.id with no user in the session    *)
(* throws a TypeError, which Express answers with 500.                     *)

\* no JSON files to migrate
\* the dashboard before its first loadData: allProgress = [], allUsers = []
NoDashboard ==
    [allUsers |-> << >>, allProgress |-> << >>, open |-> FALSE, pending |-> {},
     stats |-> [totalStaff |-> 0, completed |-> 0, inProgress |-> 0, notStarted |-> 0],
     rows |-> << >>]

NoFiles == [users |-> << >>, progress |-> << >>, order |-> "asc", runs |-> 0]

Init ==
    /\ users = DefaultUsers
    /\ progress = << >>
    /\ session = [c \in Clients |-> << >>]
    /\ resp = Json(0, [none |-> TRUE])
    /\ lastReq = NoRequest
    /\ now = 0
    /\ client = LoginPage
    /\ saves = << >>
    /\ reqs = [r \in Slots |-> IdleRequest]
    /\ files = NoFiles
    /\ dashboard = NoDashboard

Login(c, email, password) ==
    LET r == LoginHandler(users, email, password)
    IN  /\ lastReq' = RequestAfter(lastReq, "login", c, -1, FALSE)
        /\ session' = IF r.identity # << >> THEN [session EXCEPT ![c] = r.identity]
                      ELSE session
        /\ resp' = r.resp
        /\ UNCHANGED <<users, progress, now, client, saves, reqs, files, dashboard>>

\* mutant: the session is not destroyed
Logout_KeepsIdentity(c) ==
    /\ lastReq' = RequestAfter(lastReq, "logout", c, -1, FALSE)
    /\ resp' = Json(200, [success |-> TRUE])
    /\ UNCHANGED <<users, progress, session, now, client, saves, reqs, files, dashboard>>

Logout(c) ==
    /\ lastReq' = RequestAfter(lastReq, "logout", c, -1, FALSE)
    /\ session' = [session EXCEPT ![c] = << >>]
    /\ resp' = Json(200, [success |-> TRUE])
    /\ UNCHANGED <<users, progress, now, client, saves, reqs, files, dashboard>>

CheckSession(c) ==
    /\ lastReq' = RequestAfter(lastReq, "session", c, -1, FALSE)
    /\ resp' = IF session[c] # << >> THEN Json(200, [user |-> session[c][1]])
               ELSE NotAuthenticated
    /\ UNCHANGED <<users, progress, session, now, client, saves, reqs, files, dashboard>>

GetProgress(c) ==
    /\ lastReq' = RequestAfter(lastReq, "getProgress", c, -1, FALSE)
    /\ IF ~IsAuthenticated(session[c])
       THEN resp' = NotAuthenticated /\ UNCHANGED progress
       ELSE IF session[c] = << >>
       THEN resp' = UncaughtError /\ UNCHANGED progress
       ELSE LET r == GetProgressHandler(progress, session[c][1], now)
            IN  /\ progress' = r.allProgress
                /\ resp' = Json(200, r.body)
    /\ UNCHANGED <<users, session, now, client, saves, reqs, files, dashboard>>

PostProgress(c, sectionId, acknowledged) ==
    /\ lastReq' = RequestAfter(lastReq, "postProgress", c, sectionId, acknowledged)
    /\ IF ~IsAuthenticated(session[c])
       THEN resp' = NotAuthenticated /\ UNCHANGED progress
       ELSE IF session[c] = << >>
       THEN resp' = UncaughtError /\ UNCHANGED progress
       ELSE LET r == PostProgressHandler(progress, session[c][1], sectionId,
                                         acknowledged, now)
            IN  /\ progress' = r.allProgress
                /\ resp' = Json(200, r.body)
    /\ UNCHANGED <<users, session, now, client, saves, reqs, files, dashboard>>

AdminGetProgress(c) ==
    /\ lastReq' = RequestAfter(lastReq, "adminProgress", c, -1, FALSE)
    /\ resp' = IF ~IsAuthenticated(session[c]) THEN NotAuthenticated
               ELSE IF ~IsAdmin(session[c]) THEN AdminRequired
               ELSE Json(200, [list |-> Enrich(progress, users)])
    /\ UNCHANGED <<users, progress, session, now, client, saves, reqs, files, dashboard>>

AdminCreateUser(c, email, password, name) ==
    /\ lastReq' = RequestAfter(lastReq, "createUser", c, -1, FALSE)
    /\ IF ~IsAuthenticated(session[c])
       THEN resp' = NotAuthenticated /\ UNCHANGED users
       ELSE IF ~IsAdmin(session[c])
       THEN resp' = AdminRequired /\ UNCHANGED users
       ELSE LET r == CreateUserHandler(users, email, password, name)
            IN  users' = r.users /\ resp' = r.resp
    /\ UNCHANGED <<progress, session, now, client, saves, reqs, files, dashboard>>

AdminGetUsers(c) ==
    /\ lastReq' = RequestAfter(lastReq, "adminUsers", c, -1, FALSE)
    /\ resp' = IF ~IsAuthenticated(session[c]) THEN NotAuthenticated
               ELSE IF ~IsAdmin(session[c]) THEN AdminRequired
               ELSE Json(200, [list |-> SafeUsers(users)])
    /\ UNCHANGED <<users, progress, session, now, client, saves, reqs, files, dashboard>>

Next ==
    \E c \in Clients :
        \/ \E email \in Emails, password \in Passwords \cup {Undefined} :
               Login(c, email, password)
        \/ Logout(c)
        \/ CheckSession(c)
        \/ GetProgress(c)
        \/ \E sectionId \in SectionIds, acknowledged \in BOOLEAN :
               /\ PostProgress(c, sectionId, acknowledged)
               /\ TotalSections(progress') <= MaxSections
        \/ AdminGetProgress(c)
        \/ \E email \in Emails, password \in {"staff123", Undefined}, name \in NewNames :
               AdminCreateUser(c, email, password, name)
        \/ AdminGetUsers(c)

Spec == Init /\ [][Next]_vars

----------------------------------------------------------------------------
(* One staff member's journey through the sections, on the file-backed     *)
(* server: any section id of JourneyIds, acknowledged or not, with at most *)
(* MaxDisorder section records stored away from their place.               *)

Disorder(sections) == Cardinality({i \in 1..Len(sections) : sections[i].id # i - 1})

NextJourney ==
    \E c \in Clients :
        \/ Login(c, "staff@maytech.com", "staff123")
        \/ GetProgress(c)
        \/ \E sectionId \in JourneyIds, acknowledged \in BOOLEAN :
               /\ PostProgress(c, sectionId, acknowledged)
               /\ \A i \in 1..Len(progress') :
                      Disorder(progress'[i].sections) <= MaxDisorder

SpecJourney == Init /\ [][NextJourney]_vars

\* the file-backed server called directly, with ids outside 0..6
NextAnyId ==
    \E c \in Clients :
        \/ Login(c, "staff@maytech.com", "staff123")
        \/ GetProgress(c)
        \/ \E sectionId \in AnySectionIds, acknowledged \in BOOLEAN :
               PostProgress(c, sectionId, acknowledged)

SpecAnyId == Init /\ [][NextAnyId]_vars

\* the routes that read or write the session and the user file, file-backed
NextLogin ==
    \E c \in Clients :
        \/ \E email \in Emails, password \in Passwords \cup {Undefined} :
               Login(c, email, password)
        \/ Logout(c)
        \/ CheckSession(c)
        \/ \E email \in Emails, password \in Passwords \cup {Undefined}, name \in NewNames :
               AdminCreateUser(c, email, password, name)

SpecLogin == Init /\ [][NextLogin]_vars

\* initializeDataFiles: a data file that is missing when the server starts
\* is written anew, users.json with the two default users
InitializeDataFiles(usersExists, progressExists) ==
    [users |-> IF usersExists THEN users ELSE DefaultUsers,
     progress |-> IF progressExists THEN progress ELSE << >>]

\* the server is started again; the sessions of the memory store are gone
Restart(usersExists, progressExists) ==
    /\ users' = InitializeDataFiles(usersExists, progressExists).users
    /\ progress' = InitializeDataFiles(usersExists, progressExists).progress
    /\ session' = [c \in Clients |-> << >>]
    /\ UNCHANGED <<resp, lastReq, now, client, saves, reqs, files, dashboard>>

\* the file-backed server over several runs, with users who read their
\* progress and an admin who creates users and lists the progress
NextRestart ==
    \/ \E usersExists \in BOOLEAN, progressExists \in BOOLEAN :
           Restart(usersExists, progressExists)
    \/ \E c \in Clients :
           \/ \E email \in Emails, password \in Passwords : Login(c, email, password)
           \/ GetProgress(c)
           \/ \E email \in Emails, name \in NewNames :
                  AdminCreateUser(c, email, "staff123", name)
           \/ AdminGetProgress(c)

SpecRestart == Init /\ [][NextRestart]_vars

\* two users of the file-backed server, each reading and acknowledging
NextShared ==
    \E c \in Clients :
        \/ Login(c, "admin@maytech.com", "admin123")
        \/ Login(c, "staff@maytech.com", "staff123")
        \/ GetProgress(c)
        \/ \E sectionId \in SectionIds, acknowledged \in BOOLEAN :
               PostProgress(c, sectionId, acknowledged)

SpecShared == Init /\ [][NextShared]_vars

----------------------------------------------------------------------------
(* The onboarding client (src/unnamed/part_001) on the file-backed server. *)
(* The page sends saveProgress calls, the server answers them one at a     *)
(* time, and the answers, the 800 ms timers and the clicks interleave.     *)

Remove(seq, i) == SubSeq(seq, 1, i - 1) \o SubSeq(seq, i + 1, Len(seq))

\* isSectionAcknowledged: false without userProgress or without the section
IsSectionAcknowledged(userProgress, sectionIndex) ==
    /\ userProgress # << >>
    /\ LET sections == userProgress[1].sections
           section == Find(sections, {k \in DOMAIN sections : sections[k].id = sectionIndex})
       IN  section # << >> /\ section[1].acknowledged

\* updateNavigationButtons
UpdateNavigationButtons(cl) ==
    LET canProgress == \/ IsSectionAcknowledged(cl.userProgress, cl.currentSection)
                       \/ cl.currentSection = totalSections - 1
        hasNext == cl.currentSection < totalSections - 1
    IN  [cl EXCEPT !.prevDisabled = (cl.currentSection = 0),
                   !.nextDisabled = (~canProgress \/ ~hasNext)]

\* updateAcknowledgmentArea: untouched on the completion section
UpdateAcknowledgmentArea(cl, isAcknowledged) ==
    IF cl.currentSection = totalSections - 1 THEN cl
    ELSE IF isAcknowledged
    THEN [cl EXCEPT !.checked = TRUE, !.ackDisabled = FALSE]
    ELSE [cl EXCEPT !.checked = FALSE, !.ackDisabled = TRUE]

\* showSection: the section displayed is currentSection
ShowSection(cl, sectionIndex) ==
    LET shown == [cl EXCEPT !.currentSection = sectionIndex]
    IN  UpdateAcknowledgmentArea(UpdateNavigationButtons(shown),
            IsSectionAcknowledged(cl.userProgress, sectionIndex))

\* init() of a staff member with a session: loadProgress (GET /api/progress),
\* setupEventListeners, showSection(currentSection)
InitPage(c) ==
    /\ client.page = "login"
    /\ session[c] # << >>
    /\ session[c][1].role # "admin"
    /\ LET r == GetProgressHandler(progress, session[c][1], now)
           loaded == [client EXCEPT !.page = "onboarding",
                                    !.userProgress = <<r.body>>,
                                    !.currentSection = r.body.currentSection]
       IN  /\ progress' = r.allProgress
           /\ resp' = Json(200, r.body)
           /\ client' = ShowSection(loaded, loaded.currentSection)
    /\ lastReq' = RequestAfter(lastReq, "getProgress", c, -1, FALSE)
    /\ UNCHANGED <<users, session, now, saves, reqs, files, dashboard>>

\* the change listener of the checkbox; the listener does not look at the
\* section displayed
ToggleCheckbox ==
    /\ client.page = "onboarding"
    /\ client' = [client EXCEPT !.checked = ~client.checked,
                                !.ackDisabled = client.checked]
    /\ UNCHANGED <<users, progress, session, resp, lastReq, now, saves, reqs, files, dashboard>>

\* the click listener of the acknowledge button, up to the fetch of
\* saveProgress(currentSection, true); a disabled button gets no click, and
\* the listener does not look at the section displayed
ClickAcknowledge ==
    /\ client.page = "onboarding"
    /\ ~client.ackDisabled
    /\ client.checked
    /\ Len(saves) + client.timers < MaxPending
    /\ client' = [client EXCEPT !.ackDisabled = TRUE]
    /\ saves' = Append(saves, [sectionId |-> client.currentSection,
                               acknowledged |-> TRUE, stage |-> "sent",
                               resp |-> Json(0, [none |-> TRUE])])
    /\ UNCHANGED <<users, progress, session, resp, lastReq, now, reqs, files, dashboard>>

\* POST /api/progress of the i-th call in flight is handled by the server
ServeSave(c, i) ==
    /\ i \in DOMAIN saves
    /\ saves[i].stage = "sent"
    /\ IF ~IsAuthenticated(session[c])
       THEN /\ saves' = [saves EXCEPT ![i].stage = "answered",
                                      ![i].resp = NotAuthenticated]
            /\ resp' = NotAuthenticated
            /\ UNCHANGED progress
       ELSE LET r == PostProgressHandler(progress, session[c][1], saves[i].sectionId,
                                         saves[i].acknowledged, now)
            IN  /\ progress' = r.allProgress
                /\ resp' = Json(200, r.body)
                /\ saves' = [saves EXCEPT ![i].stage = "answered",
                                          ![i].resp = Json(200, r.body)]
    /\ lastReq' = RequestAfter(lastReq, "postProgress", c, saves[i].sectionId,
                               saves[i].acknowledged)
    /\ UNCHANGED <<users, session, now, client, reqs, files, dashboard>>

\* the answer of the i-th call arrives: saveProgress returns and the click
\* listener goes on, setting the timer on success
SaveResponse(i) ==
    /\ i \in DOMAIN saves
    /\ saves[i].stage = "answered"
    /\ saves' = Remove(saves, i)
    /\ client' = IF saves[i].resp.status = 200
                 THEN [client EXCEPT !.userProgress = <<saves[i].resp.body>>,
                                     !.timers = client.timers + 1]
                 ELSE [client EXCEPT !.ackDisabled = FALSE]
    /\ UNCHANGED <<users, progress, session, resp, lastReq, now, reqs, files, dashboard>>

\* the fetch of the i-th call rejects: saveProgress returns false
SaveFails(i) ==
    /\ i \in DOMAIN saves
    /\ saves' = Remove(saves, i)
    /\ client' = [client EXCEPT !.ackDisabled = FALSE]
    /\ UNCHANGED <<users, progress, session, resp, lastReq, now, reqs, files, dashboard>>

\* mutant: the timer callback advances only up to the last content section
TimerFires_StopsBeforeCompletion ==
    /\ client.timers > 0
    /\ LET fired == [client EXCEPT !.timers = client.timers - 1]
       IN  client' = IF fired.currentSection < totalSections - 2
                     THEN ShowSection(fired, fired.currentSection + 1)
                     ELSE fired
    /\ UNCHANGED <<users, progress, session, resp, lastReq, now, saves, reqs, files, dashboard>>

\* a timer set by the click listener fires, 800 ms after it was set
TimerFires ==
    /\ client.timers > 0
    /\ LET fired == [client EXCEPT !.timers = client.timers - 1]
       IN  client' = IF fired.currentSection < totalSections - 1
                     THEN ShowSection(fired, fired.currentSection + 1)
                     ELSE fired
    /\ UNCHANGED <<users, progress, session, resp, lastReq, now, saves, reqs, files, dashboard>>

\* the click listener of the previous button
ClickPrev ==
    /\ client.page = "onboarding"
    /\ ~client.prevDisabled
    /\ client.currentSection > 0
    /\ client' = ShowSection(client, client.currentSection - 1)
    /\ UNCHANGED <<users, progress, session, resp, lastReq, now, saves, reqs, files, dashboard>>

\* the click listener of the next button
ClickNext ==
    /\ client.page = "onboarding"
    /\ ~client.nextDisabled
    /\ client.currentSection < totalSections - 1
    /\ IsSectionAcknowledged(client.userProgress, client.currentSection)
    /\ client' = ShowSection(client, client.currentSection + 1)
    /\ UNCHANGED <<users, progress, session, resp, lastReq, now, saves, reqs, files, dashboard>>

\* step.onclick, set by updateProgressSteps on the steps before the current one
ClickStep(index) ==
    /\ client.page = "onboarding"
    /\ index < client.currentSection
    /\ client' = ShowSection(client, index)
    /\ UNCHANGED <<users, progress, session, resp, lastReq, now, saves, reqs, files, dashboard>>

\* the click listener of the logout button: POST /api/logout, then the
\* browser leaves the page, and with it the page's timers and pending calls
ClickLogout(c) ==
    /\ client.page = "onboarding"
    /\ lastReq' = RequestAfter(lastReq, "logout", c, -1, FALSE)
    /\ session' = [session EXCEPT ![c] = << >>]
    /\ resp' = Json(200, [success |-> TRUE])
    /\ client' = LoginPage
    /\ saves' = << >>
    /\ UNCHANGED <<users, progress, now, reqs, files, dashboard>>

NextClient ==
    \E c \in Clients :
        \/ Login(c, "staff@maytech.com", "staff123")
        \/ InitPage(c)
        \/ ToggleCheckbox
        \/ ClickAcknowledge
        \/ \E i \in 1..MaxPending : ServeSave(c, i)
        \/ \E i \in 1..MaxPending : SaveResponse(i)
        \/ \E i \in 1..MaxPending : SaveFails(i)
        \/ TimerFires
        \/ ClickPrev
        \/ ClickNext
        \/ \E index \in 0..(totalSections - 1) : ClickStep(index)
        \/ ClickLogout(c)

SpecClient == Init /\ [][NextClient]_vars

\* one visit after another of the onboarding page: the staff member logs in,
\* the page loads, sections are acknowledged in turn, the member logs out
NextResume ==
    \E c \in Clients :
        \/ Login(c, "staff@maytech.com", "staff123")
        \/ InitPage(c)
        \/ ToggleCheckbox
        \/ ClickAcknowledge
        \/ \E i \in 1..MaxPending : ServeSave(c, i)
        \/ \E i \in 1..MaxPending : SaveResponse(i)
        \/ TimerFires
        \/ ClickLogout(c)

SpecResume == Init /\ [][NextResume]_vars

----------------------------------------------------------------------------
(* The database-backed server (src/server.js 282..596). A handler runs up  *)
(* to each await in one step, so the steps of two requests interleave. The *)
(* Progress table has userId unique and lastUpdated set on every update.   *)
(* The requests are those the onboarding page sends: saveProgress(id, true). *)
(* A request keeps the identity its session held when it arrived.          *)

ServerError == Json(500, [error |-> "Server error"])

\* POST /api/login: as LoginHandler, with the exception caught by the handler
DbLoginHandler(allUsers, email, password) ==
    LET user == Find(allUsers, {k \in DOMAIN allUsers : allUsers[k].email = email})
    IN  IF user = << >>
        THEN [identity |-> << >>, resp |-> InvalidCredentials]
        ELSE IF BcryptThrows(password)
        THEN [identity |-> << >>, resp |-> ServerError]
        ELSE IF ~CompareSync(password, user[1].password)
        THEN [identity |-> << >>, resp |-> InvalidCredentials]
        ELSE [identity |-> <<Identity(user[1])>>,
              resp |-> Json(200, [success |-> TRUE, user |-> Identity(user[1])])]

\* prisma.progress.findUnique({where: {userId}}): << >> or <<row>>
DbFindUnique(allProgress, userId) ==
    Find(allProgress, {k \in DOMAIN allProgress : allProgress[k].userId = userId})

\* mutant: the table has no unique constraint on userId
DbUniqueViolated_NoConstraint(allProgress, userId) == FALSE

\* userId @unique: prisma.progress.create throws when the table already
\* holds a row of this userId
DbUniqueViolated(allProgress, userId) == DbFindUnique(allProgress, userId) # << >>

\* mutant: the update keeps the stored section records the request did not read
DbUpdate_MergeStored(allProgress, userId, sections, t) ==
    [i \in DOMAIN allProgress |->
        IF allProgress[i].userId = userId
        THEN LET stored == allProgress[i].sections
                 ids == {sections[k].id : k \in DOMAIN sections}
                 kept == SelectSeq(stored, LAMBDA s : s.id \notin ids)
             IN  UpdateCounters(allProgress[i], kept \o sections, t)
        ELSE allProgress[i]]

\* prisma.progress.update({where: {userId}, data: {sections, currentSection,
\* completedSections}}): the sections the handler holds replace the stored ones
DbUpdate(allProgress, userId, sections, t) ==
    [i \in DOMAIN allProgress |->
        IF allProgress[i].userId = userId
        THEN UpdateCounters(allProgress[i], sections, t)
        ELSE allProgress[i]]

\* include: {user: true}: the row with the user it belongs to, password and all
DbInclude(row, allUsers) ==
    [userId |-> row.userId, sections |-> row.sections,
     currentSection |-> row.currentSection,
     completedSections |-> row.completedSections,
     lastUpdated |-> row.lastUpdated,
     user |-> Find(allUsers, {k \in DOMAIN allUsers : allUsers[k].id = row.userId})[1]]

\* "Format response to match old structure"
DbFormat(included) ==
    [userId |-> included.userId, userName |-> included.user.name,
     sections |-> included.sections, currentSection |-> included.currentSection,
     completedSections |-> included.completedSections,
     lastUpdated |-> included.lastUpdated]

DbLogin(c, email, password) ==
    LET r == DbLoginHandler(users, email, password)
    IN  /\ lastReq' = RequestAfter(lastReq, "login", c, -1, FALSE)
        /\ session' = IF r.identity # << >> THEN [session EXCEPT ![c] = r.identity]
                      ELSE session
        /\ resp' = r.resp
        /\ UNCHANGED <<users, progress, now, client, saves, reqs, files, dashboard>>

\* POST /api/progress arrives in slot r: the gate, then findUnique
DbPostFind(r, c, sectionId, acknowledged) ==
    /\ reqs[r].pc = "idle"
    /\ IF ~IsAuthenticated(session[c])
       THEN reqs' = [reqs EXCEPT ![r] = [IdleRequest EXCEPT !.pc = "done",
                                                            !.resp = NotAuthenticated]]
       ELSE LET userProgress == DbFindUnique(progress, session[c][1].id)
            IN  reqs' = [reqs EXCEPT ![r] =
                    [IdleRequest EXCEPT
                        !.pc = IF userProgress = << >> THEN "create" ELSE "update",
                        !.user = session[c],
                        !.sectionId = sectionId, !.acknowledged = acknowledged,
                        !.userProgress = userProgress]]
    /\ UNCHANGED <<users, progress, session, resp, lastReq, now, client, saves, files, dashboard>>

\* prisma.progress.create: a second row of the same userId is refused, and
\* the handler's catch answers 500
DbPostCreate(r) ==
    /\ reqs[r].pc = "create"
    /\ IF DbUniqueViolated(progress, reqs[r].user[1].id)
       THEN /\ reqs' = [reqs EXCEPT ![r].pc = "done", ![r].resp = ServerError]
            /\ UNCHANGED progress
       ELSE /\ progress' = Append(progress, NewProgress(reqs[r].user[1], now))
            /\ reqs' = [reqs EXCEPT ![r].pc = "update",
                                    ![r].userProgress = <<NewProgress(reqs[r].user[1], now)>>]
    /\ UNCHANGED <<users, session, resp, lastReq, now, client, saves, files, dashboard>>

\* "Update section data", "Calculate counters", prisma.progress.update and
\* the response, on the sections this request read
DbPostUpdate(r) ==
    /\ reqs[r].pc = "update"
    /\ LET sections == UpdateSection(reqs[r].userProgress[1].sections,
                                     reqs[r].sectionId, reqs[r].acknowledged, now)
           updated == DbUpdate(progress, reqs[r].user[1].id, sections, now)
       IN  /\ progress' = updated
           /\ reqs' = [reqs EXCEPT ![r].pc = "done",
                          ![r].resp = Json(200,
                              DbFormat(DbInclude(DbFindUnique(updated, reqs[r].user[1].id)[1],
                                                 users)))]
    /\ UNCHANGED <<users, session, resp, lastReq, now, client, saves, files, dashboard>>

\* GET /api/progress arrives in slot r: the gate, then findUnique; a row that
\* is found is formatted and returned
DbGetFind(r, c) ==
    /\ reqs[r].pc = "idle"
    /\ IF ~IsAuthenticated(session[c])
       THEN reqs' = [reqs EXCEPT ![r] = [IdleRequest EXCEPT !.pc = "done",
                                                            !.resp = NotAuthenticated]]
       ELSE LET userProgress == DbFindUnique(progress, session[c][1].id)
            IN  reqs' = [reqs EXCEPT ![r] =
                    IF userProgress = << >>
                    THEN [IdleRequest EXCEPT !.pc = "getCreate", !.user = session[c]]
                    ELSE [IdleRequest EXCEPT
                             !.pc = "done", !.user = session[c],
                             !.userProgress = userProgress,
                             !.resp = Json(200, DbFormat(DbInclude(userProgress[1], users)))]]
    /\ UNCHANGED <<users, progress, session, resp, lastReq, now, client, saves, files, dashboard>>

\* "Create new progress record" of GET /api/progress, and the response
DbGetCreate(r) ==
    /\ reqs[r].pc = "getCreate"
    /\ IF DbUniqueViolated(progress, reqs[r].user[1].id)
       THEN /\ reqs' = [reqs EXCEPT ![r].pc = "done", ![r].resp = ServerError]
            /\ UNCHANGED progress
       ELSE LET created == NewProgress(reqs[r].user[1], now)
            IN  /\ progress' = Append(progress, created)
                /\ reqs' = [reqs EXCEPT ![r].pc = "done",
                               ![r].userProgress = <<created>>,
                               ![r].resp = Json(200, DbFormat(DbInclude(created, users)))]
    /\ UNCHANGED <<users, session, resp, lastReq, now, client, saves, files, dashboard>>

\* GET /api/admin/progress: findMany with the users included, then the
\* formatting. The rows of this specification carry the same lastUpdated, so
\* orderBy leaves them in the order of the table.
DbAdminGetProgress(c) ==
    /\ lastReq' = RequestAfter(lastReq, "adminProgress", c, -1, FALSE)
    /\ resp' = IF ~IsAuthenticated(session[c]) THEN NotAuthenticated
               ELSE IF ~IsAdmin(session[c]) THEN AdminRequired
               ELSE Json(200, [list |->
                        [i \in DOMAIN progress |->
                            LET p == DbInclude(progress[i], users)
                            IN  [userId |-> p.userId, userName |-> p.user.name,
                                 userEmail |-> p.user.email, sections |-> p.sections,
                                 currentSection |-> p.currentSection,
                                 completedSections |-> p.completedSections,
                                 lastUpdated |-> p.lastUpdated]]])
    /\ UNCHANGED <<users, progress, session, now, client, saves, reqs, files, dashboard>>

\* GET /api/admin/users: findMany with select {id, email, name, role,
\* createdAt}, the latest created first
DbAdminGetUsers(c) ==
    /\ lastReq' = RequestAfter(lastReq, "adminUsers", c, -1, FALSE)
    /\ resp' = IF ~IsAuthenticated(session[c]) THEN NotAuthenticated
               ELSE IF ~IsAdmin(session[c]) THEN AdminRequired
               ELSE Json(200, [list |->
                        [i \in DOMAIN users |-> Identity(users[Len(users) + 1 - i])]])
    /\ UNCHANGED <<users, progress, session, now, client, saves, reqs, files, dashboard>>

\* POST /api/admin/users arrives in slot r: the gates, then findUnique by email
DbCreateFind(r, c, email, password, name) ==
    /\ reqs[r].pc = "idle"
    /\ reqs' = [reqs EXCEPT ![r] =
           IF ~IsAuthenticated(session[c])
           THEN [IdleRequest EXCEPT !.pc = "done", !.resp = NotAuthenticated]
           ELSE IF ~IsAdmin(session[c])
           THEN [IdleRequest EXCEPT !.pc = "done", !.resp = AdminRequired]
           ELSE IF Find(users, {k \in DOMAIN users : users[k].email = email}) # << >>
           THEN [IdleRequest EXCEPT !.pc = "done", !.resp = UserExists]
           ELSE [IdleRequest EXCEPT !.pc = "userCreate", !.email = email,
                                    !.password = password, !.name = name]]
    /\ UNCHANGED <<users, progress, session, resp, lastReq, now, client, saves, files, dashboard>>

\* mutant: the table takes a second user of an email it holds
DbEmailTaken_NoConstraint(allUsers, email) == FALSE

\* email String @unique: the table holds a user of this email
DbEmailTaken(allUsers, email) ==
    Find(allUsers, {k \in DOMAIN allUsers : allUsers[k].email = email}) # << >>

\* bcrypt.hashSync and prisma.user.create: the ids are autoincremented, a
\* second user of the same email is refused, and the catch answers 500
DbCreateInsert(r) ==
    /\ reqs[r].pc = "userCreate"
    /\ IF \/ BcryptThrows(reqs[r].password)
          \/ DbEmailTaken(users, reqs[r].email)
       THEN /\ reqs' = [reqs EXCEPT ![r].pc = "done", ![r].resp = ServerError]
            /\ UNCHANGED users
       ELSE LET newUser == NewUser(users, reqs[r].email, reqs[r].password, reqs[r].name)
            IN  /\ users' = Append(users, newUser)
                /\ reqs' = [reqs EXCEPT ![r].pc = "done",
                               ![r].resp = Json(200, [success |-> TRUE,
                                                      user |-> Identity(newUser)])]
    /\ UNCHANGED <<progress, session, resp, lastReq, now, client, saves, files, dashboard>>

\* the response has been sent and the request is over
DbPostEnd(r) ==
    /\ reqs[r].pc = "done"
    /\ reqs' = [reqs EXCEPT ![r] = IdleRequest]
    /\ UNCHANGED <<users, progress, session, resp, lastReq, now, client, saves, files, dashboard>>

NextDb ==
    \E c \in Clients :
        \/ \E password \in {"staff123", Undefined} :
               DbLogin(c, "staff@maytech.com", password)
        \/ \E r \in Slots :
               \/ \E sectionId \in DbSectionIds :
                      DbPostFind(r, c, sectionId, TRUE)
               \/ DbPostCreate(r)
               \/ DbPostUpdate(r)
               \/ DbGetFind(r, c)
               \/ DbGetCreate(r)
               \/ DbPostEnd(r)

SpecDb == Init /\ [][NextDb]_vars

\* the admin routes of the database-backed server, with the reads of
\* /api/progress that create the rows
NextDbAdmin ==
    \E c \in Clients :
        \/ \E email \in Emails, password \in Passwords \cup {Undefined} :
               DbLogin(c, email, password)
        \/ DbAdminGetProgress(c)
        \/ DbAdminGetUsers(c)
        \/ \E r \in Slots :
               \/ DbGetFind(r, c)
               \/ DbGetCreate(r)
               \/ \E email \in Emails, password \in {"staff123", Undefined},
                     name \in NewNames :
                      DbCreateFind(r, c, email, password, name)
               \/ DbCreateInsert(r)
               \/ DbPostEnd(r)

SpecDbAdmin == Init /\ [][NextDbAdmin]_vars

\* e-mails of users still to be created
NewEmails == {"new@maytech.com", "next@maytech.com"}

\* the admin of the database-backed server creates users, two requests at a time
NextDbUsers ==
    \E c \in Clients :
        \/ DbLogin(c, "admin@maytech.com", "admin123")
        \/ DbAdminGetUsers(c)
        \/ \E r \in Slots :
               \/ \E email \in NewEmails \cup {"staff@maytech.com"}, name \in NewNames :
                      DbCreateFind(r, c, email, "staff123", name)
               \/ DbCreateInsert(r)
               \/ DbPostEnd(r)

SpecDbUsers == Init /\ [][NextDbUsers]_vars

----------------------------------------------------------------------------
(* The serverless variant (src/api/index.js 1..370): the handlers of the   *)
(* file-backed server on readProgress and writeProgress, which fall back   *)
(* to an empty list when the file cannot be read and drop a write that     *)
(* fails. readOk and writeOk say whether the file system obliges.          *)

ReadUsers(readOk) == IF readOk THEN users ELSE DefaultUsers

ReadProgress(readOk) == IF readOk THEN progress ELSE << >>

\* the content of progress.json after writeProgress(allProgress)
WriteProgress(writeOk, allProgress) == IF writeOk THEN allProgress ELSE progress

ServerlessLogin(c, email, password, readOk) ==
    LET r == LoginHandler(ReadUsers(readOk), email, password)
    IN  /\ lastReq' = RequestAfter(lastReq, "login", c, -1, FALSE)
        /\ session' = IF r.identity # << >> THEN [session EXCEPT ![c] = r.identity]
                      ELSE session
        /\ resp' = r.resp
        /\ UNCHANGED <<users, progress, now, client, saves, reqs, files, dashboard>>

ServerlessGetProgress(c, readOk, writeOk) ==
    /\ lastReq' = RequestAfter(lastReq, "getProgress", c, -1, FALSE)
    /\ IF ~IsAuthenticated(session[c])
       THEN resp' = NotAuthenticated /\ UNCHANGED progress
       ELSE IF session[c] = << >>
       THEN resp' = UncaughtError /\ UNCHANGED progress
       ELSE LET r == GetProgressHandler(ReadProgress(readOk), session[c][1], now)
            IN  /\ progress' = IF r.write THEN WriteProgress(writeOk, r.allProgress)
                               ELSE progress
                /\ resp' = Json(200, r.body)
    /\ UNCHANGED <<users, session, now, client, saves, reqs, files, dashboard>>

ServerlessPostProgress(c, sectionId, acknowledged, readOk, writeOk) ==
    /\ lastReq' = RequestAfter(lastReq, "postProgress", c, sectionId, acknowledged)
    /\ IF ~IsAuthenticated(session[c])
       THEN resp' = NotAuthenticated /\ UNCHANGED progress
       ELSE IF session[c] = << >>
       THEN resp' = UncaughtError /\ UNCHANGED progress
       ELSE LET r == PostProgressHandler(ReadProgress(readOk), session[c][1],
                                         sectionId, acknowledged, now)
            IN  /\ progress' = WriteProgress(writeOk, r.allProgress)
                /\ resp' = Json(200, r.body)
    /\ UNCHANGED <<users, session, now, client, saves, reqs, files, dashboard>>

\* the content of users.json after writeUsers(allUsers)
WriteUsers(writeOk, allUsers) == IF writeOk THEN allUsers ELSE users

ServerlessCreateUser(c, email, password, name, readOk, writeOk) ==
    /\ lastReq' = RequestAfter(lastReq, "createUser", c, -1, FALSE)
    /\ IF ~IsAuthenticated(session[c])
       THEN resp' = NotAuthenticated /\ UNCHANGED users
       ELSE IF ~IsAdmin(session[c])
       THEN resp' = AdminRequired /\ UNCHANGED users
       ELSE LET r == CreateUserHandler(ReadUsers(readOk), email, password, name)
            IN  /\ users' = IF r.resp.status = 200 THEN WriteUsers(writeOk, r.users)
                            ELSE users
                /\ resp' = r.resp
    /\ UNCHANGED <<progress, session, now, client, saves, reqs, files, dashboard>>

\* time passes between two requests
Tick ==
    /\ now < MaxClock
    /\ now' = now + 1
    /\ UNCHANGED <<users, progress, session, resp, lastReq, client, saves, reqs, files, dashboard>>

NextServerless ==
    \/ Tick
    \/ \E c \in Clients, readOk \in BOOLEAN :
           \/ ServerlessLogin(c, "staff@maytech.com", "staff123", readOk)
           \/ \E writeOk \in BOOLEAN :
                  \/ ServerlessGetProgress(c, readOk, writeOk)
                  \/ \E sectionId \in SectionIds, acknowledged \in BOOLEAN :
                         ServerlessPostProgress(c, sectionId, acknowledged, readOk, writeOk)

SpecServerless == Init /\ [][NextServerless]_vars

\* the serverless variant under an admin's and a staff member's requests
NextServerlessAdmin ==
    \E c \in Clients, readOk \in BOOLEAN :
        \/ \E email \in Emails, password \in Passwords : ServerlessLogin(c, email, password, readOk)
        \/ \E writeOk \in BOOLEAN :
               \/ ServerlessGetProgress(c, readOk, writeOk)
               \/ \E email \in Emails, password \in {"staff123", Undefined},
                     name \in NewNames :
                      ServerlessCreateUser(c, email, password, name, readOk, writeOk)

SpecServerlessAdmin == Init /\ [][NextServerlessAdmin]_vars

----------------------------------------------------------------------------
(* The migration script (src/scripts/init-db.js 71..228): the users and the *)
(* progress records of the JSON files are copied into the tables of the     *)
(* database, which the database-backed server has been using.              *)

\* users.json of a file-backed server whose admin has created one user
JsonUsers ==
    CreateUserHandler(DefaultUsers, "new@maytech.com", "staff123", "New Staff").users

\* progress.json after the demo staff member acknowledged section 0
JsonProgressOfStaff ==
    PostProgressHandler(<< >>, JsonUsers[2], 0, TRUE, 0).allProgress

\* progress.json after the created user has loaded the page as well
JsonProgressOfBoth ==
    GetProgressHandler(JsonProgressOfStaff, JsonUsers[3], 0).allProgress

\* the files, and the order in which the database returns the rows of the
\* User table to a query that asks for none
JsonFiles ==
    {[users |-> JsonUsers, progress |-> p, order |-> o, runs |-> 0] :
        p \in {JsonProgressOfStaff, JsonProgressOfBoth}, o \in {"asc", "desc"}}

\* the user loop: a user whose email the table holds is skipped, the others
\* are created with a new id
RECURSIVE MigrateUsers(_, _)
MigrateUsers(jsonUsers, dbUsers) ==
    IF jsonUsers = << >> THEN dbUsers
    ELSE LET user == Head(jsonUsers)
             existing == Find(dbUsers, {k \in DOMAIN dbUsers : dbUsers[k].email = user.email})
         IN  IF existing # << >>
             THEN MigrateUsers(Tail(jsonUsers), dbUsers)
             ELSE MigrateUsers(Tail(jsonUsers),
                      Append(dbUsers, [id |-> NextUserId(dbUsers), email |-> user.email,
                                       password |-> user.password, name |-> user.name,
                                       role |-> user.role]))

\* prisma.user.findFirst({where: {OR: [{id}, {name}]}}) with no orderBy: the
\* database returns the matching rows in an order of its own, the same for
\* the same query on the same table
FindFirst(dbUsers, id, name, order) ==
    LET matching == {k \in DOMAIN dbUsers : dbUsers[k].id = id \/ dbUsers[k].name = name}
    IN  IF matching = {} THEN << >>
        ELSE IF order = "asc"
        THEN <<dbUsers[CHOOSE k \in matching : \A m \in matching : k <= m]>>
        ELSE <<dbUsers[CHOOSE k \in matching : \A m \in matching : k >= m]>>

\* the progress loop without its test for an existing row
RECURSIVE MigrateProgress_NoExistingCheck(_, _, _, _)
MigrateProgress_NoExistingCheck(jsonProgress, dbUsers, dbProgress, order) ==
    IF jsonProgress = << >> THEN dbProgress
    ELSE LET prog == Head(jsonProgress)
             user == FindFirst(dbUsers, prog.userId, prog.userName, order)
         IN  IF user = << >>
             THEN MigrateProgress_NoExistingCheck(Tail(jsonProgress), dbUsers, dbProgress, order)
             ELSE MigrateProgress_NoExistingCheck(Tail(jsonProgress), dbUsers,
                      Append(dbProgress,
                             [userId |-> user[1].id, userName |-> user[1].name,
                              sections |-> prog.sections,
                              currentSection |-> prog.currentSection,
                              completedSections |-> prog.completedSections,
                              lastUpdated |-> prog.lastUpdated]),
                      order)

\* the progress loop: a record whose user is not found, or whose user has a
\* row, is skipped; the others are created for the user that was found
RECURSIVE MigrateProgress(_, _, _, _)
MigrateProgress(jsonProgress, dbUsers, dbProgress, order) ==
    IF jsonProgress = << >> THEN dbProgress
    ELSE LET prog == Head(jsonProgress)
             user == FindFirst(dbUsers, prog.userId, prog.userName, order)
         IN  IF user = << >>
             THEN MigrateProgress(Tail(jsonProgress), dbUsers, dbProgress, order)
             ELSE IF DbFindUnique(dbProgress, user[1].id) # << >>
             THEN MigrateProgress(Tail(jsonProgress), dbUsers, dbProgress, order)
             ELSE MigrateProgress(Tail(jsonProgress), dbUsers,
                      Append(dbProgress,
                             [userId |-> user[1].id, userName |-> user[1].name,
                              sections |-> prog.sections,
                              currentSection |-> prog.currentSection,
                              completedSections |-> prog.completedSections,
                              lastUpdated |-> prog.lastUpdated]),
                      order)

\* one run of migrateData
MigrateData ==
    /\ files # NoFiles
    /\ files.runs < MaxRuns
    /\ users' = MigrateUsers(files.users, users)
    /\ progress' = MigrateProgress(files.progress, users', progress, files.order)
    /\ files' = [files EXCEPT !.runs = @ + 1]
    /\ UNCHANGED <<session, resp, lastReq, now, client, saves, reqs, dashboard>>

\* the database after initializeDatabase, and the JSON files to migrate
InitMigrate ==
    /\ users = DefaultUsers
    /\ progress = << >>
    /\ session = [c \in Clients |-> << >>]
    /\ resp = Json(0, [none |-> TRUE])
    /\ lastReq = NoRequest
    /\ now = 0
    /\ client = LoginPage
    /\ saves = << >>
    /\ reqs = [r \in Slots |-> IdleRequest]
    /\ files \in JsonFiles
    /\ dashboard = NoDashboard

\* the database-backed server is used (users are created, a member reads
\* the progress), then the script is run, and run again
NextMigrate ==
    \/ /\ files.runs = 0
       /\ \E c \in Clients :
              \/ DbLogin(c, "admin@maytech.com", "admin123")
              \/ DbLogin(c, "staff@maytech.com", "staff123")
              \/ \E email \in NewEmails, name \in NewNames :
                     DbCreateFind("r1", c, email, "staff123", name)
              \/ DbCreateInsert("r1")
              \/ DbGetFind("r1", c)
              \/ DbGetCreate("r1")
              \/ DbPostEnd("r1")
    \/ MigrateData

SpecMigrate == InitMigrate /\ [][NextMigrate]_vars

----------------------------------------------------------------------------
(* What the pages display of the progress: the progress bar of the         *)
(* onboarding page (src/unnamed/part_001 155..162) and the statistics and   *)
(* the table of the admin dashboard (src/api/index.js 451..557).            *)

\* Math.round((completedCount / (totalSections - 1)) * 100), for a count that
\* is not negative
Percentage(completedCount) ==
    (2 * 100 * completedCount + (totalSections - 1)) \div (2 * (totalSections - 1))

\* allUsers.filter(u => u.role === 'staff')
StaffUsers(allUsers) == SelectSeq(allUsers, LAMBDA u : u.role = "staff")

\* mutant: renderStats counts a user as completed only past the last section
StatsBucket_PastLast(user, allProgress) ==
    LET userProgress == Find(allProgress,
                             {k \in DOMAIN allProgress : allProgress[k].userId = user.id})
    IN  IF userProgress = << >> THEN "notStarted"
        ELSE IF userProgress[1].completedSections = 0 THEN "notStarted"
        ELSE IF userProgress[1].completedSections > totalSections - 1 THEN "completed"
        ELSE "inProgress"

\* renderStats: the counter that the forEach increments for this user
StatsBucket(user, allProgress) ==
    LET userProgress == Find(allProgress,
                             {k \in DOMAIN allProgress : allProgress[k].userId = user.id})
    IN  IF userProgress = << >> THEN "notStarted"
        ELSE IF userProgress[1].completedSections = 0 THEN "notStarted"
        ELSE IF userProgress[1].completedSections >= totalSections - 1 THEN "completed"
        ELSE "inProgress"

\* renderStats: the four numbers of the dashboard
RenderStats(allUsers, allProgress) ==
    LET staffUsers == StaffUsers(allUsers)
        counted(bucket) ==
            Cardinality({k \in DOMAIN staffUsers :
                            StatsBucket(staffUsers[k], allProgress) = bucket})
    IN  [totalStaff |-> Len(staffUsers),
         completed |-> counted("completed"),
         inProgress |-> counted("inProgress"),
         notStarted |-> counted("notStarted")]

\* renderTable: the status badge of the row of this user
StatusText(user, allProgress) ==
    LET userProgress == Find(allProgress,
                             {k \in DOMAIN allProgress : allProgress[k].userId = user.id})
        completedSections == IF userProgress # << >>
                             THEN userProgress[1].completedSections ELSE 0
    IN  IF completedSections = 0 THEN "Not Started"
        ELSE IF completedSections >= totalSections - 1 THEN "Completed"
        ELSE "In Progress"

\* renderTable: one row per staff user (no row, and the empty state, when
\* there is no staff user)
RenderTable(allUsers, allProgress) ==
    LET staffUsers == StaffUsers(allUsers)
    IN  [k \in DOMAIN staffUsers |->
            LET user == staffUsers[k]
                userProgress == Find(allProgress,
                                     {i \in DOMAIN allProgress :
                                         allProgress[i].userId = user.id})
                completedSections == IF userProgress # << >>
                                     THEN userProgress[1].completedSections ELSE 0
            IN  [id |-> user.id, name |-> user.name, email |-> user.email,
                 completedSections |-> completedSections,
                 percentage |-> Percentage(completedSections),
                 statusText |-> StatusText(user, allProgress)]]

\* "Render dashboard" of loadData, once both responses of Promise.all are in
Render(d) ==
    IF d.pending # {} THEN d
    ELSE [d EXCEPT !.stats = RenderStats(d.allUsers, d.allProgress),
                   !.rows = RenderTable(d.allUsers, d.allProgress)]

\* init() of the dashboard for an admin's session, or a click on Refresh:
\* loadData sends its two requests
LoadData(c) ==
    /\ dashboard.pending = {}
    /\ dashboard.open \/ (IsAuthenticated(session[c]) /\ IsAdmin(session[c]))
    /\ dashboard' = [dashboard EXCEPT !.open = TRUE, !.pending = {"users", "progress"}]
    /\ UNCHANGED <<users, progress, session, resp, lastReq, now, client, saves, reqs, files>>

\* GET /api/admin/users of loadData is answered: allUsers is assigned when
\* the response is ok
LoadUsers(c) ==
    /\ "users" \in dashboard.pending
    /\ lastReq' = RequestAfter(lastReq, "adminUsers", c, -1, FALSE)
    /\ resp' = IF ~IsAuthenticated(session[c]) THEN NotAuthenticated
               ELSE IF ~IsAdmin(session[c]) THEN AdminRequired
               ELSE Json(200, [list |-> SafeUsers(users)])
    /\ dashboard' = Render([dashboard EXCEPT
                               !.pending = @ \ {"users"},
                               !.allUsers = IF resp'.status = 200 THEN resp'.body.list
                                            ELSE @])
    /\ UNCHANGED <<users, progress, session, now, client, saves, reqs, files>>

\* GET /api/admin/progress of loadData is answered: allProgress is assigned
\* when the response is ok
LoadProgress(c) ==
    /\ "progress" \in dashboard.pending
    /\ lastReq' = RequestAfter(lastReq, "adminProgress", c, -1, FALSE)
    /\ resp' = IF ~IsAuthenticated(session[c]) THEN NotAuthenticated
               ELSE IF ~IsAdmin(session[c]) THEN AdminRequired
               ELSE Json(200, [list |-> Enrich(progress, users)])
    /\ dashboard' = Render([dashboard EXCEPT
                               !.pending = @ \ {"progress"},
                               !.allProgress = IF resp'.status = 200 THEN resp'.body.list
                                               ELSE @])
    /\ UNCHANGED <<users, progress, session, now, client, saves, reqs, files>>

\* progress.json after the demo staff member has loaded the page (k = 0) and
\* acknowledged the sections 0..k-1
RECURSIVE JourneyProgress(_)
JourneyProgress(k) ==
    IF k = 0 THEN GetProgressHandler(<< >>, DefaultUsers[2], 0).allProgress
    ELSE PostProgressHandler(JourneyProgress(k - 1), DefaultUsers[2], k - 1, TRUE, 0).allProgress

\* the stages of the journey at which the dashboard is looked at: nothing
\* acknowledged, one section, all but one, all six, and section 6 as well
DashboardStages == {0, 1, totalSections - 2, totalSections - 1, totalSections}

\* the file-backed server after the staff member has gone some of the way
InitDashboard ==
    /\ users = DefaultUsers
    /\ progress \in {<< >>} \cup {JourneyProgress(k) : k \in DashboardStages}
    /\ session = [c \in Clients |-> << >>]
    /\ resp = Json(0, [none |-> TRUE])
    /\ lastReq = NoRequest
    /\ now = 0
    /\ client = LoginPage
    /\ saves = << >>
    /\ reqs = [r \in Slots |-> IdleRequest]
    /\ files = NoFiles
    /\ dashboard = NoDashboard

\* the admin creates a user and looks at the dashboard, and the demo staff
\* member acknowledges the last content section
NextDashboard ==
    \E c \in Clients :
        \/ Login(c, "admin@maytech.com", "admin123")
        \/ Login(c, "staff@maytech.com", "staff123")
        \/ PostProgress(c, totalSections - 2, TRUE)
        \/ \E name \in NewNames : AdminCreateUser(c, "new@maytech.com", "staff123", name)
        \/ LoadData(c)
        \/ LoadUsers(c)
        \/ LoadProgress(c)

SpecDashboard == InitDashboard /\ [][NextDashboard]_vars

----------------------------------------------------------------------------
(* The journey of a staff member who acknowledges every section displayed. *)

\* the staff member ticks the checkbox of the section displayed
CheckBox ==
    /\ ~client.checked
    /\ ToggleCheckbox

\* a staff member who logs in, opens the page, and on every section ticks
\* the checkbox and clicks the acknowledge button; no call fails; time passes
NextAttentive ==
    \E c \in Clients :
        \/ Login(c, "staff@maytech.com", "staff123")
        \/ InitPage(c)
        \/ CheckBox
        \/ ClickAcknowledge
        \/ \E i \in 1..MaxPending : ServeSave(c, i)
        \/ \E i \in 1..MaxPending : SaveResponse(i)
        \/ TimerFires
        \/ Tick

\* the member goes on acting, the server answers every call, the browser
\* delivers every answer and fires every timer
SpecAttentive ==
    /\ Init
    /\ [][NextAttentive]_vars
    /\ WF_vars(\E c \in Clients : Login(c, "staff@maytech.com", "staff123"))
    /\ WF_vars(\E c \in Clients : InitPage(c))
    /\ WF_vars(CheckBox)
    /\ WF_vars(ClickAcknowledge)
    /\ WF_vars(\E c \in Clients, i \in 1..MaxPending : ServeSave(c, i))
    /\ WF_vars(\E i \in 1..MaxPending : SaveResponse(i))
    /\ WF_vars(TimerFires)

----------------------------------------------------------------------------
(* Properties *)

\* what a record says of the sections: the counters and the (id, acknowledged) pairs
Summary(rec) ==
    [completedSections |-> rec.completedSections,
     currentSection |-> rec.currentSection,
     pairs |-> {<<rec.sections[i].id, rec.sections[i].acknowledged>> :
                   i \in 1..Len(rec.sections)}]

AcknowledgedIds(rec) ==
    {rec.sections[i].id : i \in {j \in 1..Len(rec.sections) : rec.sections[j].acknowledged}}

\* the stored record of the user of browser c, as << >> or <<record>>
RecordOf(allProgress, userId) == Find(allProgress, {k \in DOMAIN allProgress : allProgress[k].userId = userId})

\* the response carries a progress record
ProgressAnswered ==
    /\ lastReq.op \in {"getProgress", "postProgress"}
    /\ resp.status = 200

----------------------------------------------------------------------------
\* C1: after every acknowledgeSection call the record's completedSections,
\* as stored and as returned, equals the number of distinct section ids in
\* that record whose acknowledged flag is true.
C1_CompletedCountsAcknowledged ==
    /\ \A i \in 1..Len(progress) :
           progress[i].completedSections = Cardinality(AcknowledgedIds(progress[i]))
    /\ ProgressAnswered =>
           resp.body.completedSections = Cardinality(AcknowledgedIds(resp.body))

\* an acknowledgeSection call answered with a record that holds two
\* acknowledged sections and one that is not acknowledged
C1_Witness ==
    /\ lastReq.op = "postProgress"
    /\ resp.status = 200
    /\ resp.body.completedSections = 2
    /\ Len(resp.body.sections) = 3

\* C2: in every reachable state of the progress store, and in every record
\* returned by getProgress or acknowledgeSection, currentSection is
\* min(completedSections, 6), hence within 0..6.
C2_CurrentIsMinOfCompleted ==
    LET Ok(rec) ==
            /\ rec.completedSections <= LastSection
                   => rec.currentSection = rec.completedSections
            /\ rec.completedSections > LastSection => rec.currentSection = LastSection
            /\ rec.currentSection \in 0..LastSection
    IN  /\ \A i \in 1..Len(progress) : Ok(progress[i])
        /\ ProgressAnswered => Ok(resp.body)

\* a stored record with more than six acknowledged sections, capped at 6
C2_Witness ==
    \E i \in 1..Len(progress) :
        /\ progress[i].completedSections > LastSection
        /\ progress[i].currentSection = LastSection

\* currentSection of the stored record of a user, 0 while there is none
CurrentOf(allProgress, userId) ==
    LET found == RecordOf(allProgress, userId)
    IN  IF found = << >> THEN 0 ELSE found[1].currentSection

\* C3 as claimed: currentSection of a user's record never decreases, whatever
\* the acknowledgeSection call (acknowledged true or false, any section id).
C3_CurrentNeverDecreases ==
    [][\A i \in 1..Len(progress) :
          CurrentOf(progress', progress[i].userId) >= progress[i].currentSection]_vars

\* C3 as amended: currentSection of a user's record decreases only in an
\* acknowledgeSection call of that user with acknowledged = false on a section
\* that was acknowledged, and then by exactly one; a call with
\* acknowledged = true never lowers it.
C3_DecreasesOnlyWhenUnacknowledged ==
    [][\A i \in 1..Len(progress) :
          CurrentOf(progress', progress[i].userId) < progress[i].currentSection
          => /\ lastReq'.op = "postProgress"
             /\ lastReq'.acknowledged = FALSE
             /\ session[lastReq'.client] # << >>
             /\ session[lastReq'.client][1].id = progress[i].userId
             /\ lastReq'.sectionId \in AcknowledgedIds(progress[i])
             /\ CurrentOf(progress', progress[i].userId) = progress[i].currentSection - 1
      ]_vars

\* a call with acknowledged = false on the first of two stored sections
\* has been answered, and currentSection is 1 with two sections touched
C3_Witness ==
    /\ lastReq.op = "postProgress"
    /\ lastReq.acknowledged = FALSE
    /\ resp.status = 200
    /\ Len(resp.body.sections) = 2
    /\ lastReq.sectionId = resp.body.sections[1].id
    /\ resp.body.sections[2].acknowledged
    /\ resp.body.currentSection = 1

\* C7: acknowledgeSection(user, s, true) issued twice in a row: the second
\* call leaves completedSections, currentSection and the set of
\* (section id, acknowledged) pairs, stored and returned, as the first call
\* left them.
C7_ReacknowledgeChangesNothing ==
    [][(/\ lastReq'.op = "postProgress"
        /\ lastReq'.acknowledged
        /\ lastReq'.repeat
        /\ resp.status = 200
        /\ resp'.status = 200)
       => /\ Summary(resp'.body) = Summary(resp.body)
          /\ LET id == resp.body.userId
             IN  /\ RecordOf(progress, id) # << >>
                 /\ RecordOf(progress', id) # << >>
                 /\ Summary(RecordOf(progress', id)[1]) = Summary(RecordOf(progress, id)[1])
                 /\ Summary(RecordOf(progress', id)[1]) = Summary(resp'.body)
      ]_vars

\* the second of two identical acknowledgments in a row has been answered,
\* on a record with one more acknowledged section
C7_Witness ==
    /\ lastReq.op = "postProgress"
    /\ lastReq.acknowledged
    /\ lastReq.repeat
    /\ resp.status = 200
    /\ lastReq.sectionId \in AcknowledgedIds(resp.body)
    /\ resp.body.completedSections = 2

\* C8: createUser called by an admin with an e-mail that already belongs to a
\* user is answered 400 "User already exists" and leaves the user store as
\* it was.
C8_DuplicateEmailRejected ==
    [][\A c \in Clients, email \in Emails, password \in Passwords \cup {Undefined},
         name \in NewNames :
          (/\ AdminCreateUser(c, email, password, name)
           /\ IsAdmin(session[c])
           /\ \E i \in 1..Len(users) : users[i].email = email)
          => /\ resp' = UserExists
             /\ resp'.status = 400
             /\ users' = users
      ]_vars

\* an admin's createUser has been answered "User already exists" after a
\* user was created through the API
C8_Witness ==
    /\ lastReq.op = "createUser"
    /\ IsAdmin(session[lastReq.client])
    /\ resp = UserExists
    /\ Len(users) = 3

AnyEmail == Emails \cup {"nobody@maytech.com"}

\* C9: for any submitted password, a missing one included, a login with an
\* existing e-mail and a non-matching password and a login with an e-mail
\* no user has are answered with the same status, 401, and the same body.
C9_LoginEnumerationResistant ==
    \A password \in Passwords \cup {Undefined}, known \in AnyEmail, unknown \in AnyEmail :
        LET user == Find(users, {k \in DOMAIN users : users[k].email = known})
        IN  (/\ user # << >>
             /\ user[1].password # HashSync(password, BcryptRounds)
             /\ Find(users, {k \in DOMAIN users : users[k].email = unknown}) = << >>)
            => /\ LoginHandler(users, known, password).resp
                      = LoginHandler(users, unknown, password).resp
               /\ LoginHandler(users, known, password).resp.status = 401

\* C10: a request to a gated endpoint (GET or POST /api/progress, the three
\* /api/admin routes) whose session carries no identity is answered 401 and
\* changes neither the progress store nor the user store.
C10_UnauthenticatedIsRejected ==
    [][(/\ lastReq'.op \in {"getProgress", "postProgress", "adminProgress",
                            "createUser", "adminUsers"}
        /\ session[lastReq'.client] = << >>)
       => /\ resp' = NotAuthenticated
          /\ resp'.status = 401
          /\ progress' = progress
          /\ users' = users
      ]_vars

\* a POST /api/progress sent without identity has been answered 401 while
\* the store holds a record
C10_Witness ==
    /\ lastReq.op = "postProgress"
    /\ session[lastReq.client] = << >>
    /\ resp = NotAuthenticated
    /\ progress # << >>

\* C4: on the onboarding page, section k > 0 is displayed only if every
\* section j < k is acknowledged in the client's userProgress.
C4_NoSectionSkipped ==
    client.page = "onboarding"
    => \A j \in 0..(client.currentSection - 1) :
           IsSectionAcknowledged(client.userProgress, j)

\* the section ids a record holds
SectionIdsOf(rec) == {rec.sections[k].id : k \in DOMAIN rec.sections}

\* two POST /api/progress of the same user, both answered, for two different
\* section ids, where each request read the row before either of the two
\* sections was stored in it
RacingPair(r1, r2) ==
    /\ r1 # r2
    /\ reqs[r1].pc = "done"
    /\ reqs[r2].pc = "done"
    /\ reqs[r1].userProgress # << >>
    /\ reqs[r2].userProgress # << >>
    /\ reqs[r1].user = reqs[r2].user
    /\ reqs[r1].sectionId # reqs[r2].sectionId
    /\ reqs[r1].sectionId # IdleRequest.sectionId
    /\ reqs[r2].sectionId # IdleRequest.sectionId
    /\ \A r \in {r1, r2} :
           SectionIdsOf(reqs[r].userProgress[1])
               \cap {reqs[r1].sectionId, reqs[r2].sectionId} = {}

\* C5: in the database-backed server, when two acknowledgeSection calls of
\* the same user for two different section ids have both read the record
\* before either wrote it, both are answered 200, each answer holds the
\* caller's own section and not the other's, and the stored record holds
\* exactly one of the two SectionRecords: an update is lost.
C5_ConcurrentUpdateIsLost ==
    \A r1 \in Slots, r2 \in Slots :
        RacingPair(r1, r2)
        => LET a == reqs[r1].sectionId
               b == reqs[r2].sectionId
               stored == RecordOf(progress, reqs[r1].resp.body.userId)
           IN  /\ reqs[r1].resp.status = 200
               /\ reqs[r2].resp.status = 200
               /\ SectionIdsOf(reqs[r1].resp.body) \cap {a, b} = {a}
               /\ SectionIdsOf(reqs[r2].resp.body) \cap {a, b} = {b}
               /\ stored # << >>
               /\ Cardinality(SectionIdsOf(stored[1]) \cap {a, b}) = 1

\* both calls of a racing pair have been answered 200 with acknowledged =
\* true, and the stored record has one section, not the one of the first call
C5_Witness ==
    \E r1 \in Slots, r2 \in Slots :
        /\ RacingPair(r1, r2)
        /\ reqs[r1].acknowledged
        /\ reqs[r2].acknowledged
        /\ reqs[r1].resp.status = 200
        /\ reqs[r2].resp.status = 200
        /\ Len(progress) = 1
        /\ SectionIdsOf(progress[1]) = {reqs[r2].sectionId}

\* C6: of two consecutive getProgress calls by the same user with nothing
\* written in between, the second returns the record the first returned
\* (same sections, counters and lastUpdated) and leaves the store as it was.
C6_GetProgressIdempotent ==
    [][(/\ lastReq'.op = "getProgress"
        /\ lastReq'.repeat
        /\ resp.status = 200
        /\ resp'.status = 200)
       => /\ resp'.body = resp.body
          /\ progress' = progress
      ]_vars

AdminOps == {"adminProgress", "createUser", "adminUsers"}

\* C11: an admin route (list all progress, list users, create user) runs its
\* handler only for a session identity of role admin: with no identity the
\* answer is 401, with a staff identity it is 403, and in both cases the
\* stores are left as they were.
C11_AdminRoutesNeedAdmin ==
    [][lastReq'.op \in AdminOps
       => LET sess == session[lastReq'.client]
          IN  /\ sess = << >>
                    => /\ resp' = NotAuthenticated
                       /\ resp'.status = 401
                       /\ users' = users /\ progress' = progress
              /\ (sess # << >> /\ sess[1].role = "staff")
                    => /\ resp' = AdminRequired
                       /\ resp'.status = 403
                       /\ users' = users /\ progress' = progress
              /\ resp'.status \notin {401, 403}
                    => sess # << >> /\ sess[1].role = "admin"
      ]_vars

\* a staff member's request for the user list has been answered 403
C11_Witness ==
    /\ lastReq.op = "adminUsers"
    /\ session[lastReq.client] # << >>
    /\ session[lastReq.client][1].role = "staff"
    /\ resp = AdminRequired

\* C12: a request of an authenticated non-admin to any admin route, POST
\* /api/admin/users included, is answered 403 and leaves the user store and
\* the progress store identical.
C12_StaffOnAdminRouteChangesNothing ==
    [][\A c \in Clients :
          (/\ session[c] # << >>
           /\ session[c][1].role # "admin"
           /\ \/ AdminGetProgress(c)
              \/ AdminGetUsers(c)
              \/ \E email \in Emails, password \in Passwords \cup {Undefined},
                    name \in NewNames : AdminCreateUser(c, email, password, name))
          => /\ resp'.status = 403
             /\ users' = users
             /\ progress' = progress
      ]_vars

\* a staff member's createUser has been answered 403 while the stores hold
\* a user created by an admin and a progress record
C12_Witness ==
    /\ lastReq.op = "createUser"
    /\ session[lastReq.client] # << >>
    /\ session[lastReq.client][1].role = "staff"
    /\ resp.status = 403
    /\ Len(users) = 3
    /\ progress # << >>

AdminsOf(allUsers) == {allUsers[i] : i \in {j \in DOMAIN allUsers : allUsers[j].role = "admin"}}

\* C13: every user created through createUser has role staff, and the set of
\* users with role admin is what seeding made it, whatever the API calls.
C13_NoNewAdmin ==
    /\ AdminsOf(users) = AdminsOf(DefaultUsers)
    /\ \A i \in DOMAIN users : i > Len(DefaultUsers) => users[i].role = "staff"
    /\ \A i \in DOMAIN DefaultUsers : i \in DOMAIN users /\ users[i] = DefaultUsers[i]

\* createUser has just succeeded and the store holds the created staff user
C13_Witness ==
    /\ lastReq.op = "createUser"
    /\ resp.status = 200
    /\ Len(users) = 3
    /\ users[3].role = "staff"
    /\ users[3].email = "new@maytech.com"

\* a response body or a session identity carries a password hash: it has a
\* password field, directly, in its user, or in an element of its list
CarriesHash(body) ==
    \/ "password" \in DOMAIN body
    \/ "user" \in DOMAIN body /\ "password" \in DOMAIN body.user
    \/ "list" \in DOMAIN body /\ \E i \in DOMAIN body.list :
           \/ "password" \in DOMAIN body.list[i]
           \/ "user" \in DOMAIN body.list[i]

\* C14: the session identity established by login and the response bodies of
\* login, session check, createUser, list users, getProgress,
\* acknowledgeSection and list-all-progress never contain a password hash.
C14_NoPasswordHashLeaves ==
    /\ \A c \in Clients : session[c] # << >> => ~CarriesHash(session[c][1])
    /\ ~CarriesHash(resp.body)
    /\ \A r \in Slots : ~CarriesHash(reqs[r].resp.body)

\* an admin has been answered the list of users, a created one included
C14_Witness ==
    /\ lastReq.op = "adminUsers"
    /\ resp.status = 200
    /\ Len(resp.body.list) = 3
    /\ Len(users) = 3
    /\ \A i \in DOMAIN users : "password" \in DOMAIN users[i]

\* C15: in every reachable state there is at most one ProgressRecord per
\* user id, also when a user's first getProgress and acknowledgeSection
\* requests are in progress at the same time.
C15_OneRecordPerUser ==
    \A i \in DOMAIN progress, j \in DOMAIN progress :
        progress[i].userId = progress[j].userId => i = j

\* two first requests of a user were in progress together, a getProgress
\* and an acknowledgeSection: one created the record, the other's create
\* was refused, and the store holds one record
C15_Witness ==
    \E r1 \in Slots, r2 \in Slots :
        /\ reqs[r1].pc = "done"
        /\ reqs[r1].resp = ServerError
        /\ reqs[r1].sectionId = IdleRequest.sectionId
        /\ reqs[r2].pc \in {"update", "done"}
        /\ reqs[r2].sectionId # IdleRequest.sectionId
        /\ reqs[r2].user = reqs[r1].user
        /\ Len(progress) = 1

\* C16: a successful getProgress of a user with no ProgressRecord returns a
\* record with empty sections, currentSection 0 and completedSections 0, and
\* the store then holds a record of that user equal to the one returned.
C16_FirstGetProgressPersists ==
    [][\A c \in Clients :
          (/\ \/ GetProgress(c)
              \/ \E readOk \in BOOLEAN, writeOk \in BOOLEAN :
                     ServerlessGetProgress(c, readOk, writeOk)
           /\ session[c] # << >>
           /\ RecordOf(progress, session[c][1].id) = << >>
           /\ resp'.status = 200)
          => /\ resp'.body.sections = << >>
             /\ resp'.body.currentSection = 0
             /\ resp'.body.completedSections = 0
             /\ RecordOf(progress', session[c][1].id) = <<resp'.body>>
      ]_vars

\* C18: a getProgress, acknowledgeSection or createUser during which the
\* store could not be read, or could not be written when the handler wrote
\* to it, is answered 500 and never reported as a success.
C18_StoreFailureIsServerError ==
    [][\A c \in Clients, readOk \in BOOLEAN, writeOk \in BOOLEAN :
          /\ (/\ ServerlessGetProgress(c, readOk, writeOk)
               /\ session[c] # << >>
               /\ \/ ~readOk
                  \/ /\ ~writeOk
                     /\ GetProgressHandler(ReadProgress(readOk), session[c][1], now).write)
              => resp'.status = 500
          /\ (/\ \E sectionId \in SectionIds, acknowledged \in BOOLEAN :
                    ServerlessPostProgress(c, sectionId, acknowledged, readOk, writeOk)
               /\ session[c] # << >>
               /\ (~readOk \/ ~writeOk))
              => resp'.status = 500
          /\ \A email \in Emails, password \in Passwords \cup {Undefined}, name \in NewNames :
                 (/\ ServerlessCreateUser(c, email, password, name, readOk, writeOk)
                  /\ IsAdmin(session[c])
                  /\ \/ ~readOk
                     \/ /\ ~writeOk
                        /\ CreateUserHandler(ReadUsers(readOk), email, password,
                                             name).resp.status = 200)
                 => resp'.status = 500
      ]_vars

\* the record holds a section with this id, and that section has this flag
HasSection(rec, sectionId, acknowledged) ==
    /\ rec # << >>
    /\ \E k \in DOMAIN rec[1].sections : rec[1].sections[k].id = sectionId
    /\ \A k \in DOMAIN rec[1].sections :
           rec[1].sections[k].id = sectionId
               => rec[1].sections[k].acknowledged = acknowledged

\* C17: every acknowledgeSection of an authenticated user, whatever its
\* sectionId (inside or outside 0..6), is answered 200, and the user's stored
\* record then holds a section with that id and the given acknowledged flag.
C17_AnySectionIdIsStored ==
    [][/\ \A c \in Clients, sectionId \in SectionIds \cup AnySectionIds,
             acknowledged \in BOOLEAN :
              (PostProgress(c, sectionId, acknowledged) /\ session[c] # << >>)
              => /\ resp'.status = 200
                 /\ HasSection(RecordOf(progress', session[c][1].id),
                               sectionId, acknowledged)
       /\ \A r \in Slots :
              (reqs[r].pc \in {"create", "update"} /\ reqs'[r].pc = "done")
              => /\ reqs'[r].resp.status = 200
                 /\ HasSection(RecordOf(progress', reqs[r].user[1].id),
                               reqs[r].sectionId, reqs[r].acknowledged)
      ]_vars

\* C20: a login is answered 200 exactly when a user with the given e-mail
\* exists and the given password is the one its hash was made from; the
\* session identity is then that user's id, email, name and role and nothing
\* else; any other login leaves every session as it was.
C20_LoginIffCredentialsMatch ==
    [][\A c \in Clients, email \in Emails, password \in Passwords \cup {Undefined} :
          (Login(c, email, password) \/ DbLogin(c, email, password))
          => LET user == Find(users, {k \in DOMAIN users : users[k].email = email})
                 matches == /\ user # << >>
                            /\ password # Undefined
                            /\ user[1].password = HashSync(password, BcryptRounds)
             IN  /\ resp'.status = 200 <=> matches
                 /\ matches => /\ session'[c] = <<Identity(user[1])>>
                                /\ DOMAIN session'[c][1] = {"id", "email", "name", "role"}
                                /\ \A f \in {"id", "email", "name", "role"} :
                                       session'[c][1][f] = user[1][f]
                 /\ ~matches => session' = session
      ]_vars

\* a login was just refused while the session holds an identity
C20_Witness ==
    /\ lastReq.op = "login"
    /\ resp.status = 401
    /\ session[lastReq.client] # << >>

\* C19: a login or a logout changes neither the progress store nor the user
\* store, nothing changes a stored record while the onboarding page is closed,
\* and the page, loaded again after a logout and a new login, gets the stored
\* record unchanged from getProgress and shows that record's currentSection.
C19_ProgressSurvivesSession ==
    [][\A c \in Clients :
          /\ (\/ \E email \in Emails, password \in Passwords \cup {Undefined} :
                    Login(c, email, password)
               \/ Logout(c)
               \/ ClickLogout(c))
              => (progress' = progress /\ users' = users)
          /\ (client.page = "login" /\ progress # << >>)
              => (progress' = progress /\ users' = users)
          /\ (InitPage(c) /\ RecordOf(progress, session[c][1].id) # << >>)
              => LET stored == RecordOf(progress, session[c][1].id)
                 IN  /\ resp' = Json(200, stored[1])
                     /\ client'.userProgress = stored
                     /\ client'.currentSection = stored[1].currentSection
      ]_vars

\* the page has just been loaded again by a member who had acknowledged a
\* section before logging out, and shows the section the stored record names
C19_Witness ==
    /\ lastReq.op = "getProgress"
    /\ client.page = "onboarding"
    /\ client.currentSection >= 1
    /\ client.userProgress = RecordOf(progress, session[lastReq.client][1].id)
    /\ client.currentSection = client.userProgress[1].currentSection

\* the endpoints behind isAuthenticated
GatedOps == {"getProgress", "postProgress", "adminProgress", "createUser", "adminUsers"}

\* C21: a logout is answered {success: true} and leaves the session without
\* identity, whether or not it had one; while a session has no identity,
\* GET /api/session and every gated endpoint answer 401 on it, and only a
\* login answered 200 on that session gives it an identity again.
C21_LoggedOutUntilLogin ==
    [][\A c \in Clients :
          /\ (lastReq'.op = "logout" /\ lastReq'.client = c)
              => /\ resp' = Json(200, [success |-> TRUE])
                 /\ session'[c] = << >>
          /\ (/\ session[c] = << >>
               /\ lastReq'.client = c
               /\ lastReq'.op \in GatedOps \cup {"session"})
              => /\ resp'.status = 401
                 /\ session'[c] = << >>
          /\ (session[c] = << >> /\ session'[c] # << >>)
              => /\ lastReq'.op = "login"
                 /\ lastReq'.client = c
                 /\ resp'.status = 200
      ]_vars

\* GET /api/session has been answered 401 on a session that had an identity
\* before (a record was stored under it) and was logged out
C21_Witness ==
    /\ lastReq.op = "session"
    /\ session[lastReq.client] = << >>
    /\ resp = NotAuthenticated
    /\ progress # << >>

\* what listAllProgress is to return for a stored record: the record with
\* the name and e-mail of the first user of that id, or "Unknown" twice
Enriched(p, allUsers) ==
    LET owners == {k \in DOMAIN allUsers : allUsers[k].id = p.userId}
        owner == allUsers[CHOOSE k \in owners : \A m \in owners : k <= m]
    IN  [userId |-> p.userId, sections |-> p.sections,
         currentSection |-> p.currentSection,
         completedSections |-> p.completedSections,
         lastUpdated |-> p.lastUpdated,
         userName |-> IF owners = {} THEN "Unknown" ELSE owner.name,
         userEmail |-> IF owners = {} THEN "Unknown" ELSE owner.email]

\* C22: GET /api/admin/progress by an admin is answered 200 with one entry
\* per stored progress record, neither more nor fewer, each entry being its
\* record with the owner's name and e-mail, or with "Unknown" for both when
\* no user has the record's userId.
C22_ListAllProgressEnriches ==
    [][\A c \in Clients :
          (/\ IsAdmin(session[c])
           /\ \/ AdminGetProgress(c)
              \/ /\ \A i \in DOMAIN progress :  \* the foreign key of Progress
                        \E k \in DOMAIN users : users[k].id = progress[i].userId
                 /\ DbAdminGetProgress(c))
          => /\ resp'.status = 200
             /\ Len(resp'.body.list) = Len(progress)
             /\ \A i \in DOMAIN progress :
                    Cardinality({j \in DOMAIN resp'.body.list :
                                    resp'.body.list[j] = Enriched(progress[i], users)})
                        = Cardinality({k \in DOMAIN progress : progress[k] = progress[i]})
      ]_vars

\* the list just returned has an entry of a known user and an entry whose
\* user is gone from the user file
C22_Witness ==
    /\ lastReq.op = "adminProgress"
    /\ resp.status = 200
    /\ \E i \in DOMAIN resp.body.list, j \in DOMAIN resp.body.list :
           /\ resp.body.list[i].userName = "Unknown"
           /\ resp.body.list[i].userEmail = "Unknown"
           /\ resp.body.list[j].userName # "Unknown"
           /\ \A k \in DOMAIN users : users[k].id # resp.body.list[i].userId

\* the record holds the sections 0..k-1 in this order, all acknowledged
InOrder(rec, k) ==
    /\ Len(rec.sections) = k
    /\ \A i \in 1..k : rec.sections[i].id = i - 1 /\ rec.sections[i].acknowledged

\* C23: for k in 0..5, acknowledging section k when the user's record holds
\* exactly the sections 0..k-1, all acknowledged (no record or no section
\* for k = 0), returns and stores a record with completedSections = k + 1
\* and currentSection = k + 1 that holds the sections 0..k and none of id 6;
\* currentSection is 6 exactly when completedSections is 6.
C23_InOrderJourneyCounts ==
    [][\A c \in Clients, k \in 0..(LastSection - 1) :
          (/\ PostProgress(c, k, TRUE)
           /\ session[c] # << >>
           /\ LET old == RecordOf(progress, session[c][1].id)
              IN  IF old = << >> THEN k = 0 ELSE InOrder(old[1], k))
          => LET new == RecordOf(progress', session[c][1].id)
             IN  /\ new # << >>
                 /\ resp' = Json(200, new[1])
                 /\ InOrder(new[1], k + 1)
                 /\ new[1].completedSections = k + 1
                 /\ new[1].currentSection = k + 1
                 /\ LastSection \notin SectionIdsOf(new[1])
                 /\ new[1].currentSection = LastSection
                        <=> new[1].completedSections = LastSection
      ]_vars

\* the sections 0..5 have been acknowledged in order: the record is on the
\* completion section and holds no section of id 6
C23_Witness ==
    \E i \in 1..Len(progress) :
        /\ InOrder(progress[i], LastSection)
        /\ progress[i].completedSections = LastSection
        /\ progress[i].currentSection = LastSection
        /\ lastReq.op = "postProgress"
        /\ lastReq.sectionId = LastSection - 1

\* every record of allProgress that is not of userId is in after, unchanged
\* and at its place, and after has no new record of another user
OthersUnchanged(allProgress, after, userId) ==
    /\ Len(after) >= Len(allProgress)
    /\ \A i \in DOMAIN allProgress :
           allProgress[i].userId # userId => after[i] = allProgress[i]
    /\ \A i \in DOMAIN after :
           after[i].userId # userId => i \in DOMAIN allProgress

\* C24: a getProgress or acknowledgeSection under the session of user A
\* leaves the progress record of every other user as it was and creates no
\* record of another user: the record read and written is the one of the
\* session identity, whatever the body of the request.
C24_OnlyOwnRecordChanges ==
    [][/\ \A c \in Clients :
              (/\ lastReq'.op \in {"getProgress", "postProgress"}
               /\ lastReq'.client = c
               /\ \/ GetProgress(c)
                  \/ PostProgress(c, lastReq'.sectionId, lastReq'.acknowledged)
               /\ session[c] # << >>)
              => /\ OthersUnchanged(progress, progress', session[c][1].id)
                 /\ resp'.body.userId = session[c][1].id
       /\ \A r \in Slots :
              (reqs[r].pc \in {"create", "update", "getCreate"} /\ reqs'[r] # reqs[r])
              => OthersUnchanged(progress, progress', reqs[r].user[1].id)
      ]_vars

\* user A has just acknowledged a section while the store holds the record
\* of another user B, with an acknowledged section of its own
C24_Witness ==
    /\ lastReq.op = "postProgress"
    /\ resp.status = 200
    /\ \E i \in DOMAIN progress :
           /\ progress[i].userId # resp.body.userId
           /\ progress[i].completedSections >= 1
           /\ SectionIdsOf(progress[i]) # SectionIdsOf(resp.body)

\* the (id, acknowledged) pairs of a record
PairsOf(rec) ==
    {<<rec.sections[k].id, rec.sections[k].acknowledged>> : k \in DOMAIN rec.sections}

\* the record of user after acknowledgeSection(sectionId, acknowledged) on a
\* store that holds allProgress
Acknowledged(allProgress, user, sectionId, acknowledged) ==
    PostProgressHandler(allProgress, user, sectionId, acknowledged, now).allProgress

\* C25: from every reachable store and for two different section ids s1 and
\* s2, acknowledgeSection(s1) followed by acknowledgeSection(s2) and the two
\* calls in the other order leave the user's record with the same set of
\* (id, acknowledged) pairs, the same completedSections and the same
\* currentSection.
C25_OrderOfAcknowledgmentsIrrelevant ==
    \A c \in Clients :
        session[c] # << >>
        => \A s1 \in AnySectionIds, s2 \in AnySectionIds, a1 \in BOOLEAN, a2 \in BOOLEAN :
               s1 # s2 =>
               LET user == session[c][1]
                   one == RecordOf(Acknowledged(Acknowledged(progress, user, s1, a1),
                                                user, s2, a2), user.id)[1]
                   other == RecordOf(Acknowledged(Acknowledged(progress, user, s2, a2),
                                                  user, s1, a1), user.id)[1]
               IN  /\ PairsOf(one) = PairsOf(other)
                   /\ one.completedSections = other.completedSections
                   /\ one.currentSection = other.currentSection

\* the stored record holds two acknowledged sections, the one of the higher
\* id acknowledged first
C25_Witness ==
    \E i \in DOMAIN progress :
        \E j \in DOMAIN progress[i].sections, k \in DOMAIN progress[i].sections :
            /\ j < k
            /\ progress[i].sections[j].id > progress[i].sections[k].id
            /\ progress[i].sections[j].acknowledged
            /\ progress[i].sections[k].acknowledged
            /\ progress[i].completedSections = 2

\* the stored record of userId has the sections and counters of body
StoredAs(allProgress, userId, body) ==
    LET stored == RecordOf(allProgress, userId)
    IN  /\ stored # << >>
        /\ stored[1].sections = body.sections
        /\ stored[1].completedSections = body.completedSections
        /\ stored[1].currentSection = body.currentSection

\* C26: when an acknowledgeSection is answered 200, the store holds for the
\* caller, right after the call, a record with the sections, the
\* completedSections and the currentSection of the record in the answer.
C26_ReturnedRecordIsStored ==
    [][/\ \A c \in Clients :
              (/\ lastReq'.op = "postProgress"
               /\ lastReq'.client = c
               /\ \/ PostProgress(c, lastReq'.sectionId, lastReq'.acknowledged)
                  \/ \E readOk \in BOOLEAN, writeOk \in BOOLEAN :
                         ServerlessPostProgress(c, lastReq'.sectionId,
                                                lastReq'.acknowledged, readOk, writeOk)
               /\ session[c] # << >>
               /\ resp'.status = 200)
              => StoredAs(progress', session[c][1].id, resp'.body)
       /\ \A r \in Slots :
              (/\ reqs[r].pc = "update"
               /\ reqs'[r].pc = "done"
               /\ reqs'[r].resp.status = 200)
              => StoredAs(progress', reqs[r].user[1].id, reqs'[r].resp.body)
      ]_vars

\* C27: no two users of the user store have the same id, and no two have
\* the same e-mail, whatever createUser calls were made and however their
\* steps interleaved.
C27_UserIdsAndEmailsUnique ==
    \A i \in DOMAIN users, j \in DOMAIN users :
        i # j => (users[i].id # users[j].id /\ users[i].email # users[j].email)

\* two users have been created, and a createUser that ran together with the
\* one that created its e-mail has been refused
C27_Witness ==
    /\ Len(users) = Len(DefaultUsers) + 2
    /\ \E r \in Slots :
           /\ reqs[r].pc = "done"
           /\ reqs[r].resp = ServerError
           /\ \E k \in DOMAIN users : users[k].email = reqs[r].email

\* the user of this id in a list of users, as << >> or <<user>>
UserOfId(allUsers, id) == Find(allUsers, {k \in DOMAIN allUsers : allUsers[k].id = id})

\* C28: every progress row that a run of the migration creates has the
\* content of a record of progress.json and belongs to the database user
\* whose e-mail is the e-mail of the user that owns that record in users.json.
C28_MigratedProgressKeepsOwner ==
    [][MigrateData
       => \A i \in DOMAIN progress' :
              i > Len(progress)
              => \E p \in DOMAIN files.progress :
                     LET prog == files.progress[p]
                         owner == UserOfId(files.users, prog.userId)
                         holder == UserOfId(users', progress'[i].userId)
                     IN  /\ progress'[i].sections = prog.sections
                         /\ progress'[i].completedSections = prog.completedSections
                         /\ owner # << >>
                         /\ holder # << >>
                         /\ holder[1].email = owner[1].email
      ]_vars

\* C29: a run of the migration that follows another run on the same JSON
\* files leaves the User table and the Progress table as they were.
C29_SecondRunChangesNothing ==
    [][(MigrateData /\ files.runs >= 1)
       => (users' = users /\ progress' = progress)
      ]_vars

\* the script has run twice, and its first run created users and progress
C29_Witness ==
    /\ files.runs = 2
    /\ Len(users) > Len(DefaultUsers)
    /\ progress # << >>

\* C30: in the database-backed server no getProgress and no
\* acknowledgeSection of an authenticated user is answered with a server
\* error, the first requests of a user that overlap in time included: each
\* of them is answered 200 with the user's record.
C30_ConcurrentFirstRequestsSucceed ==
    \A r \in Slots :
        (reqs[r].pc = "done" /\ reqs[r].user # << >>)
        => /\ reqs[r].resp # ServerError
           /\ reqs[r].resp.status = 200
           /\ reqs[r].resp.body.userId = reqs[r].user[1].id

\* C31: in the database-backed server a createUser that went past the test
\* for an existing e-mail either creates the user (200) or is answered
\* "User already exists" (400), never with a server error, also when another
\* createUser of the same e-mail runs at the same time.
C31_ConcurrentCreateIsRefusedAs400 ==
    \A r \in Slots :
        (reqs[r].pc = "done" /\ reqs[r].email # "" /\ ~BcryptThrows(reqs[r].password))
        => \/ reqs[r].resp = UserExists
           \/ /\ reqs[r].resp.status = 200
              /\ \E k \in DOMAIN users : users[k].email = reqs[r].email

\* C32: after a createUser that was answered with success the user store
\* holds a user of that e-mail with role staff, a second createUser of the
\* e-mail is answered "User already exists", and a login with the e-mail and
\* the password is answered 200 with the identity of the created user.
C32_CreatedUserIsStoredAndUsable ==
    [][\A c \in Clients, email \in Emails, password \in Passwords \cup {Undefined},
         name \in NewNames :
          (/\ \/ AdminCreateUser(c, email, password, name)
              \/ \E readOk \in BOOLEAN, writeOk \in BOOLEAN :
                     ServerlessCreateUser(c, email, password, name, readOk, writeOk)
           /\ resp'.status = 200)
          => LET created == Find(users', {k \in DOMAIN users' : users'[k].email = email})
             IN  /\ created # << >>
                 /\ created[1].role = "staff"
                 /\ CreateUserHandler(users', email, password, name).resp = UserExists
                 /\ LoginHandler(users', email, password).resp.status = 200
                 /\ LoginHandler(users', email, password).identity = <<Identity(created[1])>>
      ]_vars

\* C33: within one stored progress record no two section records have the
\* same id, whatever acknowledgments were made and however they overlapped.
C33_SectionIdsUnique ==
    \A i \in DOMAIN progress :
        \A a \in DOMAIN progress[i].sections, b \in DOMAIN progress[i].sections :
            a # b => progress[i].sections[a].id # progress[i].sections[b].id

\* two overlapping acknowledgments of the same section were both answered
\* 200, and the record holds section records
C33_Witness ==
    /\ reqs["r1"].pc = "done" /\ reqs["r2"].pc = "done"
    /\ reqs["r1"].resp.status = 200 /\ reqs["r2"].resp.status = 200
    /\ reqs["r1"].sectionId = reqs["r2"].sectionId
    /\ reqs["r1"].sectionId # IdleRequest.sectionId
    /\ reqs["r1"].user = reqs["r2"].user
    /\ \E i \in DOMAIN progress :
           /\ progress[i].userId = reqs["r1"].user[1].id
           /\ Len(progress[i].sections) >= 2

\* C34: every acknowledgment that the onboarding page has sent, or sends, is
\* for a section id in 0..5: never for the completion section (6), never for
\* an id outside 0..6.
C34_ClientSendsOnlyContentSections ==
    \A i \in DOMAIN saves : saves[i].sectionId \in 0..(totalSections - 2)

\* C35: the percentage that the onboarding page and the admin dashboard
\* display, round(completedSections / 6 * 100), is between 0 and 100 for every
\* stored progress record.
C35_PercentageWithinBounds ==
    \A i \in DOMAIN progress :
        /\ Percentage(progress[i].completedSections) >= 0
        /\ Percentage(progress[i].completedSections) <= 100

\* C36: the dashboard counts every staff user in exactly one of not started
\* (no record, or completedSections = 0), completed (completedSections >= 6)
\* and in progress, so the three counters add up to the number of staff users,
\* and the status in a user's table row is the one of the counter the user
\* was counted in.
C36_DashboardBucketsPartitionStaff ==
    dashboard.pending = {}
    => LET staffUsers == StaffUsers(dashboard.allUsers)
           stats == dashboard.stats
           InBucket(text) == Cardinality({k \in DOMAIN dashboard.rows :
                                             dashboard.rows[k].statusText = text})
       IN  /\ stats.totalStaff = Len(staffUsers)
           /\ stats.notStarted + stats.inProgress + stats.completed = stats.totalStaff
           /\ Len(dashboard.rows) = Len(staffUsers)
           /\ stats.notStarted = InBucket("Not Started")
           /\ stats.inProgress = InBucket("In Progress")
           /\ stats.completed = InBucket("Completed")
           /\ \A k \in DOMAIN dashboard.rows :
                  LET row == dashboard.rows[k]
                      rec == Find(dashboard.allProgress,
                                  {i \in DOMAIN dashboard.allProgress :
                                      dashboard.allProgress[i].userId = row.id})
                  IN  /\ row.statusText = "Not Started"
                         <=> (rec = << >> \/ rec[1].completedSections = 0)
                      /\ row.statusText = "Completed"
                         <=> (rec # << >> /\ rec[1].completedSections >= 6)
                      /\ row.statusText \in {"Not Started", "In Progress", "Completed"}

\* the dashboard shows one user of each kind: a completed one and one
\* without a record, or one in progress and one without a record
C36_Witness ==
    /\ dashboard.pending = {}
    /\ dashboard.stats.totalStaff = 2
    /\ dashboard.stats.completed = 1
    /\ dashboard.stats.notStarted = 1
    /\ \E i \in DOMAIN dashboard.allProgress :
           dashboard.allProgress[i].completedSections >= 6

\* C37: a staff member who starts at section 0 and, on every section
\* displayed, ticks the checkbox and clicks the acknowledge button, while every
\* save succeeds and every timer fires, eventually has the completion
\* section (6) displayed.
C37_AttentiveMemberReachesCompletion ==
    (client.page = "onboarding" /\ client.currentSection = 0)
        ~> (client.page = "onboarding" /\ client.currentSection = totalSections - 1)

\* the completion section is displayed after six acknowledgments
C37_Witness ==
    /\ client.page = "onboarding"
    /\ client.currentSection = totalSections - 1
    /\ client.userProgress # << >>
    /\ client.userProgress[1].completedSections = totalSections - 1
    /\ client.timers = 0
    /\ saves = << >>

====
